---- MODULE Spec2Model ----
(***************************************************************************)
(* Model of lsst-ts/ts_ess_epm: the Modbus AGC150 poll engine, the MIB     *)
(* tree builder and the SNMP poll engine.                                  *)
(*                                                                         *)
(* The module holds seven specifications over one set of variables:        *)
(*   SpecModbus  ModbusDataClient + ModbusAgc150Connector                  *)
(*   SpecValue   the pure decoder _process_modbus_value                    *)
(*   SpecMib     MibTreeHolder construction                                *)
(*   SpecSnmp    SnmpDataClient setup_reading / read_data                  *)
(*   SpecExtract the pure decoder _extract_float_from_string               *)
(*   SpecPoll    either poll engine (the states of SpecModbus and SpecSnmp) *)
(*   SpecSimulated  the Modbus engine on a connector holding a simulator   *)
(* Each specification leaves the variables of the others untouched.        *)
(***************************************************************************)
EXTENDS Integers, Sequences, FiniteSets, TLC

VARIABLES
    \* ---- Modbus: ModbusAgc150Connector / ModbusDataClient
    simulation_mode,        \* constructor argument (0 or 1)
    ctor_outcome,           \* "ok" or the exception the constructor raised
    client,                 \* self.client: [exists, connected]
    simulator,              \* self.simulator: "None" | "stopped" | "started"
    agc150_fields,          \* self.agc150_fields (dict: field name -> value)
    data_client_connected,  \* ModbusDataClient._connected
    client_reads,           \* what the last call awaited, in order: the reads
                            \* issued to the client, then set_write and sleep
    last_call,              \* the last call made: operation, entry state, outcome
    cycles,                 \* number of poll cycles started so far
    \* ---- publish boundary (both engines): topic name -> set_write calls
    topics,
    \* ---- _process_modbus_value taken alone
    mv_value, mv_fields, mv_results,
    \* ---- MibTreeHolder
    mib_listing,            \* the *.mib files as the file system lists them
    mib_files,              \* sorted(DATA_DIR.glob("*.mib")), file by file
    mib_pos,                \* index of the next declaration to process
    mib_tree,               \* self.mib_tree (dict: name -> MibTreeElement)
    pending_modules,        \* self.pending_modules (dict: parent -> (name, oid))
    mib_status,             \* "building" | "done" | the exception raised
    mib_deferred,           \* history: the modules that were deferred
    \* ---- SnmpDataClient
    device_type,            \* config.device_type
    snmp_result,            \* self.snmp_result, in insertion order
    system_description,     \* self.system_description
    raritan_decimal_digits, \* self.raritan_decimal_digits
    object_types,           \* self.object_types: the roots of the next walk
    snmp_calls,             \* the methods called so far, in order
    snmp_last,              \* the last call: method, outcome, writes before it
    \* ---- _extract_float_from_string taken alone
    fs_origin,              \* how the string was made: kind, payload, tail
    fs_input,               \* float_string
    fs_outcome              \* the float returned or the exception raised

modbusVars == << simulation_mode, ctor_outcome, client, simulator, agc150_fields,
                 data_client_connected, client_reads, last_call, cycles >>
valueVars  == << mv_value, mv_fields, mv_results >>
mibVars    == << mib_listing, mib_files, mib_pos, mib_tree, pending_modules,
                 mib_status, mib_deferred >>
snmpVars   == << device_type, snmp_result, system_description,
                 raritan_decimal_digits, object_types, snmp_calls, snmp_last >>
extractVars == << fs_origin, fs_input, fs_outcome >>
vars == << modbusVars, valueVars, mibVars, snmpVars, extractVars, topics >>

-----------------------------------------------------------------------------
(* Bounds of the model.                                                    *)

\* Poll cycles (process_telemetry / read_data calls) per behaviour.
MaxCycles == 2
\* Declarations in the *.mib documents, all documents together.
MaxDecls == 3
\* setup_reading calls per behaviour.
MaxSetups == 2
\* Outlets of a Raritan unit.
MaxOutlets == 2

-----------------------------------------------------------------------------
(* Python values.  Every scalar is a record of one shape so that values of *)
(* different Python types can be compared: None, bool, int, and float      *)
(* written as the exact quotient num / den.                                *)

NoneVal            == [t |-> "None",  b |-> FALSE, num |-> 0, den |-> 1]
BoolVal(b)         == [t |-> "bool",  b |-> b,     num |-> 0, den |-> 1]
IntVal(n)          == [t |-> "int",   b |-> FALSE, num |-> n, den |-> 1]
FloatVal(num, den) == [t |-> "float", b |-> FALSE, num |-> num, den |-> den]

\* A dict entry of agc150_fields: a scalar or a list of scalars.
ScalarField(v)   == [isList |-> FALSE, val |-> v, items |-> << >>]
ListField(items) == [isList |-> TRUE, val |-> NoneVal, items |-> items]

\* dict helpers: a dict is a function whose DOMAIN is the set of its keys.
DictSet(d, k, v) == (k :> v) @@ d
EmptyDict == << >>

Range(s) == {s[i] : i \in 1..Len(s)}

-----------------------------------------------------------------------------
(* enums.py: the AGC150 register map.  Each table is the enum in           *)
(* declaration order, as <<name, value>> pairs.                            *)

ARRAY_FIELDS_AGC150 ==
    [ anyAlarmPMS |-> << "anyAlarmPMS1", "anyAlarmPMS2", "anyAlarmPMS3",
                         "anyAlarmPMS4", "anyAlarmPMS5", "anyAlarmPMS6",
                         "anyAlarmPMS7", "anyAlarmPMS8" >>,
      readyAutoStartDG |-> << "readyAutoStartDG1", "readyAutoStartDG2",
                              "readyAutoStartDG3", "readyAutoStartDG4",
                              "readyAutoStartDG5", "readyAutoStartDG6",
                              "readyAutoStartDG7", "readyAutoStartDG8" >>,
      windingTemperature |-> << "windingTemperature1", "windingTemperature2",
                                "windingTemperature3" >> ]

\* The keys of ARRAY_FIELDS_AGC150 in dict (insertion) order.
ArrayFieldOrder == << "anyAlarmPMS", "readyAutoStartDG", "windingTemperature" >>

DiscreteInputsAgc150 ==
    << <<"gbPositionOn", 0>>, <<"mbPositionOn", 1>>, <<"running", 3>>, 
       <<"generatorVoltageFrequencyOk", 4>>, <<"mainFailure", 5>>, <<"blockMode", 6>>, 
       <<"manualMode", 7>>, <<"semiAutoMode", 8>>, <<"autoMode", 9>>, 
       <<"testMode", 10>>, <<"gbPositionOff", 11>>, <<"mbPositionOff", 12>>, 
       <<"island", 13>>, <<"automaticMainsFailure", 14>>, <<"peakShaving", 15>>, 
       <<"fixedPower", 16>>, <<"mainsPowerExport", 17>>, <<"loadTakeover", 18>>, 
       <<"powerManagement", 19>>, <<"anyAlarmPMS1", 20>>, <<"anyAlarmPMS2", 21>>, 
       <<"anyAlarmPMS3", 22>>, <<"anyAlarmPMS4", 23>>, <<"anyAlarmPMS5", 24>>, 
       <<"anyAlarmPMS6", 25>>, <<"anyAlarmPMS7", 26>>, <<"anyAlarmPMS8", 27>>, 
       <<"anyAlarmMains", 28>>, <<"batteryTest", 29>>, <<"readyAutoStartDG1", 31>>, 
       <<"readyAutoStartDG2", 32>>, <<"readyAutoStartDG3", 33>>, 
       <<"readyAutoStartDG4", 34>>, <<"readyAutoStartDG5", 35>>, 
       <<"readyAutoStartDG6", 36>>, <<"readyAutoStartDG7", 37>>, 
       <<"readyAutoStartDG8", 38>>, <<"mainSyncInhibit", 53>>, 
       <<"anyMainsSyncInhibit", 54>> >>

InputRegistersAgc150 ==
    << <<"applicationVersion", 500>>, <<"generatorVoltageL1L2", 501>>, 
       <<"generatorVoltageL2L3", 502>>, <<"generatorVoltageL3L1", 503>>, 
       <<"generatorVoltageL1N", 504>>, <<"generatorVoltageL2N", 505>>, 
       <<"generatorVoltageL3N", 506>>, <<"generatorFrequencyL1", 507>>, 
       <<"generatorFrequencyL2", 508>>, <<"generatorFrequencyL3", 509>>, 
       <<"generatorVoltagePhaseAngleL1L2", 510>>, 
       <<"generatorVoltagePhaseAngleL2L3", 511>>, 
       <<"generatorVoltagePhaseAngleL3L1", 512>>, <<"generatorCurrentL1", 513>>, 
       <<"generatorCurrentL2", 514>>, <<"generatorCurrentL3", 515>>, 
       <<"generatorPowerL1", 516>>, <<"generatorPowerL2", 517>>, 
       <<"generatorPowerL3", 518>>, <<"generatorPower", 519>>, 
       <<"generatorReactivePowerL1", 520>>, <<"generatorReactivePowerL2", 521>>, 
       <<"generatorReactivePowerL3", 522>>, <<"generatorReactivePower", 523>>, 
       <<"generatorApparentPowerL1", 524>>, <<"generatorApparentPowerL2", 525>>, 
       <<"generatorApparentPowerL3", 526>>, <<"generatorApparentPower", 527>>, 
       <<"generatorExportReactiveEnergyCounterTotal", 528>>, 
       <<"generatorExportActiveEnergyCounterDay", 530>>, 
       <<"generatorExportActiveEnergyCounterWeek", 532>>, 
       <<"generatorExportActiveEnergyCounterMonth", 534>>, 
       <<"generatorExportActiveEnergyCounterTotal", 536>>, <<"generatorPF", 538>>, 
       <<"busBVoltageL1L2", 539>>, <<"busBVoltageL2L3", 540>>, 
       <<"busBVoltageL3L1", 541>>, <<"busBVoltageL1N", 542>>, <<"busBVoltageL2N", 543>>, 
       <<"busBVoltageL3N", 544>>, <<"busBFrequencyL1", 545>>, 
       <<"busBFrequencyL2", 546>>, <<"busBFrequencyL3", 547>>, 
       <<"busBVoltagePhaseAngleL1L2", 548>>, <<"busBVoltagePhaseAngleL2L3", 549>>, 
       <<"busBVoltagePhaseAngleL3L1", 550>>, <<"uBBL1uGENL1PhaseAngle", 551>>, 
       <<"uBBL2uGENL2PhaseAngle", 552>>, <<"uBBL3uGENL3PhaseAngle", 553>>, 
       <<"absoluteRunningHours", 554>>, <<"relativeRunningHours", 556>>, 
       <<"numberAlarms", 558>>, <<"numberUnacknowledgedAlarms", 559>>, 
       <<"numberActiveAcknowledgedAlarms", 560>>, <<"numberGBOperations", 563>>, 
       <<"numberMBOperations", 564>>, <<"startAttempts", 566>>, 
       <<"dcSupplyTerm12", 567>>, <<"serviceTimer1RunningHours", 569>>, 
       <<"serviceTimer1RunningDays", 570>>, <<"serviceTimer2RunningHours", 571>>, 
       <<"serviceTimer2RunningDays", 572>>, <<"cosPhi", 573>>, <<"cosPhiType", 574>>, 
       <<"rpm", 576>>, <<"runningHoursLoadProfile", 577>>, <<"multiInput20", 583>>, 
       <<"multiInput21", 584>>, <<"multiInput22", 585>>, <<"multiInput23", 587>>, 
       <<"mainsPower", 592>>, <<"engineSpeed", 593>>, 
       <<"engineCoolantTemperature", 594>>, <<"engineOilPressure", 595>>, 
       <<"numberActualFaults", 596>>, <<"engineOilTemperature", 597>>, 
       <<"fuelTemperature", 598>>, <<"intakeManifold1Pressure", 599>>, 
       <<"airInletTemperature", 600>>, <<"coolantLevel", 601>>, <<"fuelRate", 602>>, 
       <<"chargeAirPressure", 603>>, <<"intakeManifold1Temperature", 604>>, 
       <<"driversDemandEnginePercentTorque", 605>>, 
       <<"actualEnginePercentTorque", 606>>, <<"acceleratorPedalPosition", 607>>, 
       <<"percentLoadCurrentSpeed", 608>>, <<"airInletPressure", 609>>, 
       <<"exhaustGasTemperature", 610>>, <<"engineHours", 611>>, 
       <<"engineOilFilterDifferentialPressure", 612>>, 
       <<"keyswitchBatteryPotential", 613>>, <<"fuelDeliveryPressure", 614>>, 
       <<"engineOilLevel", 615>>, <<"crankcasePressure", 616>>, 
       <<"coolantPressure", 617>>, <<"waterInFuel", 618>>, <<"blowbyFlow", 619>>, 
       <<"fuelRailPressure", 620>>, <<"timingRailPressure", 621>>, 
       <<"aftercoolerWaterInletTemperature", 622>>, <<"turboOilTemperature", 623>>, 
       <<"particulateTrapInletPressure", 624>>, 
       <<"airFilterDifferentialPressure", 625>>, 
       <<"coolantFilterDifferentialPressure", 626>>, <<"atmosphericPressure", 627>>, 
       <<"ambientAirTemperature", 628>>, <<"exhaustTemperatureRight", 629>>, 
       <<"exhaustTemperatureLeft", 630>>, <<"windingTemperature1", 631>>, 
       <<"windingTemperature2", 632>>, <<"windingTemperature3", 633>>, 
       <<"auxiliaryAnalogInfo", 634>>, 
       <<"engineTurbocharger1CompressorOutletTemperature", 636>>, 
       <<"engineIntercoolerTemperature", 637>>, <<"engineTripFuel", 638>>, 
       <<"engineTotalFuel", 639>>, <<"tripFuelGasseous", 640>>, 
       <<"totalFuelGasseous", 641>> >>

InputRegistersAgc150DecimalFactor ==
    << <<"applicationVersion", 0>>, <<"generatorVoltageL1L2", 0>>, 
       <<"generatorVoltageL2L3", 0>>, <<"generatorVoltageL3L1", 0>>, 
       <<"generatorVoltageL1N", 0>>, <<"generatorVoltageL2N", 0>>, 
       <<"generatorVoltageL3N", 0>>, <<"generatorFrequencyL1", 2>>, 
       <<"generatorFrequencyL2", 2>>, <<"generatorFrequencyL3", 2>>, 
       <<"generatorVoltagePhaseAngleL1L2", 1>>, <<"generatorVoltagePhaseAngleL2L3", 1>>, 
       <<"generatorVoltagePhaseAngleL3L1", 1>>, <<"generatorCurrentL1", 0>>, 
       <<"generatorCurrentL2", 0>>, <<"generatorCurrentL3", 0>>, 
       <<"generatorPowerL1", 0>>, <<"generatorPowerL2", 0>>, <<"generatorPowerL3", 0>>, 
       <<"generatorPower", 0>>, <<"generatorReactivePowerL1", 0>>, 
       <<"generatorReactivePowerL2", 0>>, <<"generatorReactivePowerL3", 0>>, 
       <<"generatorReactivePower", 0>>, <<"generatorApparentPowerL1", 0>>, 
       <<"generatorApparentPowerL2", 0>>, <<"generatorApparentPowerL3", 0>>, 
       <<"generatorApparentPower", 0>>, 
       <<"generatorExportReactiveEnergyCounterTotal", 0>>, 
       <<"generatorExportActiveEnergyCounterDay", 0>>, 
       <<"generatorExportActiveEnergyCounterWeek", 0>>, 
       <<"generatorExportActiveEnergyCounterMonth", 0>>, 
       <<"generatorExportActiveEnergyCounterTotal", 0>>, <<"generatorPF", 2>>, 
       <<"busBVoltageL1L2", 0>>, <<"busBVoltageL2L3", 0>>, <<"busBVoltageL3L1", 0>>, 
       <<"busBVoltageL1N", 0>>, <<"busBVoltageL2N", 0>>, <<"busBVoltageL3N", 0>>, 
       <<"busBFrequencyL1", 2>>, <<"busBFrequencyL2", 2>>, <<"busBFrequencyL3", 2>>, 
       <<"busBVoltagePhaseAngleL1L2", 1>>, <<"busBVoltagePhaseAngleL2L3", 1>>, 
       <<"busBVoltagePhaseAngleL3L1", 1>>, <<"uBBL1uGENL1PhaseAngle", 0>>, 
       <<"uBBL2uGENL2PhaseAngle", 0>>, <<"uBBL3uGENL3PhaseAngle", 0>>, 
       <<"absoluteRunningHours", 0>>, <<"relativeRunningHours", 0>>, 
       <<"numberAlarms", 0>>, <<"numberUnacknowledgedAlarms", 0>>, 
       <<"numberActiveAcknowledgedAlarms", 0>>, <<"numberGBOperations", 0>>, 
       <<"numberMBOperations", 0>>, <<"startAttempts", 0>>, <<"dcSupplyTerm12", 1>>, 
       <<"serviceTimer1RunningHours", 0>>, <<"serviceTimer1RunningDays", 0>>, 
       <<"serviceTimer2RunningHours", 0>>, <<"serviceTimer2RunningDays", 0>>, 
       <<"cosPhi", 2>>, <<"cosPhiType", 0>>, <<"rpm", 0>>, 
       <<"runningHoursLoadProfile", 0>>, <<"multiInput20", 0>>, <<"multiInput21", 0>>, 
       <<"multiInput22", 0>>, <<"multiInput23", 0>>, <<"mainsPower", 0>>, 
       <<"engineSpeed", 0>>, <<"engineCoolantTemperature", 1>>, 
       <<"engineOilPressure", 2>>, <<"numberActualFaults", 0>>, 
       <<"engineOilTemperature", 1>>, <<"fuelTemperature", 0>>, 
       <<"intakeManifold1Pressure", 2>>, <<"airInletTemperature", 0>>, 
       <<"coolantLevel", 1>>, <<"fuelRate", 1>>, <<"chargeAirPressure", 0>>, 
       <<"intakeManifold1Temperature", 0>>, <<"driversDemandEnginePercentTorque", 0>>, 
       <<"actualEnginePercentTorque", 0>>, <<"acceleratorPedalPosition", 0>>, 
       <<"percentLoadCurrentSpeed", 0>>, <<"airInletPressure", 2>>, 
       <<"exhaustGasTemperature", 1>>, <<"engineHours", 0>>, 
       <<"engineOilFilterDifferentialPressure", 2>>, <<"keyswitchBatteryPotential", 1>>, 
       <<"fuelDeliveryPressure", 2>>, <<"engineOilLevel", 1>>, 
       <<"crankcasePressure", 2>>, <<"coolantPressure", 2>>, <<"waterInFuel", 0>>, 
       <<"blowbyFlow", 0>>, <<"fuelRailPressure", 0>>, <<"timingRailPressure", 0>>, 
       <<"aftercoolerWaterInletTemperature", 0>>, <<"turboOilTemperature", 1>>, 
       <<"particulateTrapInletPressure", 2>>, <<"airFilterDifferentialPressure", 3>>, 
       <<"coolantFilterDifferentialPressure", 2>>, <<"atmosphericPressure", 2>>, 
       <<"ambientAirTemperature", 1>>, <<"exhaustTemperatureRight", 1>>, 
       <<"exhaustTemperatureLeft", 1>>, <<"windingTemperature", 0>>, 
       <<"auxiliaryAnalogInfo", 0>>, 
       <<"engineTurbocharger1CompressorOutletTemperature", 0>>, 
       <<"engineIntercoolerTemperature", 0>>, <<"engineTripFuel", 0>>, 
       <<"engineTotalFuel", 1>>, <<"tripFuelGasseous", 0>>, <<"totalFuelGasseous", 1>> >>

\* Name -> decimal factor, as InputRegistersAgc150DecimalFactor[name].value.
DecimalFactorNames ==
    {InputRegistersAgc150DecimalFactor[i][1] :
        i \in 1..Len(InputRegistersAgc150DecimalFactor)}
DecimalFactorOf ==
    [n \in DecimalFactorNames |->
        LET i == CHOOSE j \in 1..Len(InputRegistersAgc150DecimalFactor) :
                     InputRegistersAgc150DecimalFactor[j][1] = n
        IN  InputRegistersAgc150DecimalFactor[i][2]]

\* 2^15 and 2^16: the bounds of a 16 bit register word.
Two15 == 32768
Two16 == 65536

RECURSIVE Pow10(_)
Pow10(n) == IF n = 0 THEN 1 ELSE 10 * Pow10(n - 1)

-----------------------------------------------------------------------------
(* ModbusAgc150Connector: pure helpers.                                    *)

\* tuple.index(x): the 0-based position of the first x.
TupleIndex(s, x) ==
    (CHOOSE i \in 1..Len(s) : s[i] = x /\ \A j \in 1..(i - 1) : s[j] # x) - 1

RECURSIVE XmlNameFrom(_, _)
XmlNameFrom(i, field_name) ==
    IF i > Len(ArrayFieldOrder) THEN field_name
    ELSE IF field_name \in Range(ARRAY_FIELDS_AGC150[ArrayFieldOrder[i]])
         THEN ArrayFieldOrder[i]
         ELSE XmlNameFrom(i + 1, field_name)

_get_xml_field_name(field_name) == XmlNameFrom(1, field_name)

\* (variant: the sign boundary one word too high)
SignedValue_offByOne(value) == IF value <= Two15 THEN value ELSE value - Two16

\* value if value < 32768 else value - 65536
SignedValue(value) == IF value < Two15 THEN value ELSE value - Two16

\* The result is a Python value, or KeyErrorVal when the field has no
\* decimal factor (the enum lookup raises KeyError).
KeyErrorVal == [t |-> "KeyError", b |-> FALSE, num |-> 0, den |-> 1]

_process_modbus_value(field, value) ==
    IF value.t = "bool" THEN value
    ELSE LET signed_value == SignedValue(value.num)
             xml == _get_xml_field_name(field)
         IN  IF xml \notin DecimalFactorNames THEN KeyErrorVal
             ELSE LET decimal_factor == DecimalFactorOf[xml]
                  IN  IF decimal_factor = 0 THEN IntVal(signed_value)
                      ELSE FloatVal(signed_value, Pow10(decimal_factor))

\* The slot written by _save_field for a list-valued field.
\* (variant: always the first slot)
SaveSlot_first(field_name, input_name) == 0

SaveSlot(field_name, input_name) ==
    TupleIndex(ARRAY_FIELDS_AGC150[field_name], input_name)

\* Returns the new agc150_fields.
_save_field(fields, input_name, read_value) ==
    LET field_name == _get_xml_field_name(input_name)
        processed_value == _process_modbus_value(field_name, read_value)
    IN  IF field_name \in DOMAIN fields /\ fields[field_name].isList
        THEN LET index == SaveSlot(field_name, input_name)
             IN  DictSet(fields, field_name,
                     ListField([fields[field_name].items
                                   EXCEPT ![index + 1] = processed_value]))
        ELSE DictSet(fields, field_name, ScalarField(processed_value))

_process_modbus_response_array(fields, input, modbus_response_array) ==
    IF Len(modbus_response_array) > 0
    THEN _save_field(fields, input[1], modbus_response_array[1])
    ELSE fields

\* (variant: the client's own connection state is not looked at)
connected_clientOnly(c) == c.exists

\* BaseModbusConnector.connected
connected(c) == c.exists /\ c.connected

NoClient == [exists |-> FALSE, connected |-> FALSE]

-----------------------------------------------------------------------------
(* The device seen through the pymodbus client.  A response is decided by  *)
(* the device state dev: the bit and word it holds at each address (drawn  *)
(* from a seed so that neighbouring addresses differ), the one input that  *)
(* returns no data, and the one read on which the client raises.           *)

\* The device memories polled: the bit at even addresses and the word the
\* registers are seeded with (one positive, one beyond 2^15 at every address).
DeviceMemories ==
    { [bit |-> TRUE, word |-> 12345], [bit |-> FALSE, word |-> Two15 - 7] }
\* Inputs on which a read may return an empty array.
NoDataInputs == {"running", "windingTemperature2"}
\* Inputs on which a read may raise.
RaiseInputs == {"rpm"}

\* What goes wrong in one poll: nothing, one empty response, one read that
\* raises, or the connection dropping while the discrete inputs are read.
Anomalies ==
    { [nodata |-> "-", raise_at |-> "-", drop_after_discrete |-> FALSE],
      [nodata |-> "-", raise_at |-> "-", drop_after_discrete |-> TRUE] }
    \cup { [nodata |-> n, raise_at |-> "-", drop_after_discrete |-> FALSE] :
              n \in NoDataInputs }
    \cup { [nodata |-> "-", raise_at |-> r, drop_after_discrete |-> FALSE] :
              r \in RaiseInputs }

DeviceStates ==
    { [bit |-> mem.bit, word |-> mem.word, nodata |-> a.nodata,
       raise_at |-> a.raise_at, drop_after_discrete |-> a.drop_after_discrete] :
          mem \in DeviceMemories, a \in Anomalies }

\* The device polled when a private read method is called on its own.
HealthyDevice ==
    [bit |-> TRUE, word |-> 12345, nodata |-> "-", raise_at |-> "-",
     drop_after_discrete |-> FALSE]

DeviceBit(dev, address)  == IF address % 2 = 0 THEN dev.bit ELSE ~dev.bit
DeviceWord(dev, address) == (dev.word + address) % Two16

\* response.bits / response.registers for a read of count=1 at input.
Response(dev, kind, input) ==
    IF dev.nodata = input[1] THEN << >>
    ELSE IF kind = "discrete" THEN << BoolVal(DeviceBit(dev, input[2])) >>
         ELSE << IntVal(DeviceWord(dev, input[2])) >>

\* One pass of the loop body in _read_discrete_inputs / _read_input_registers:
\* the read of one input and the processing of its response.
\* st = [fields, reads, raised].
ReadOne(kind, input, st, dev) ==
    LET issued == Append(st.reads, << kind, input[2] >>)
    IN  IF dev.raise_at = input[1]
        THEN [st EXCEPT !.reads = issued, !.raised = "ModbusException"]
        ELSE [st EXCEPT
                !.reads = issued,
                !.fields = _process_modbus_response_array(
                               st.fields, input, Response(dev, kind, input))]

\* `for input in <enum>`: the members lo..hi of the table in declaration
\* order, stopping at the first read that raises.  (The range is split in
\* halves only to keep the evaluation depth logarithmic.)
RECURSIVE ReadLoop(_, _, _, _, _, _)
ReadLoop(kind, table, lo, hi, st, dev) ==
    IF lo > hi \/ st.raised # "-" THEN st
    ELSE IF lo = hi THEN ReadOne(kind, table[lo], st, dev)
    ELSE LET mid == (lo + hi) \div 2
         IN  ReadLoop(kind, table, mid + 1, hi,
                      ReadLoop(kind, table, lo, mid, st, dev), dev)

\* st = [client, fields, reads, raised, writes].
_read_discrete_inputs(st, dev) ==
    IF connected(st.client)
    THEN LET r == ReadLoop("discrete", DiscreteInputsAgc150, 1,
                      Len(DiscreteInputsAgc150),
                      [fields |-> st.fields, reads |-> st.reads, raised |-> "-"], dev)
         IN  [st EXCEPT !.fields = r.fields, !.reads = r.reads, !.raised = r.raised]
    ELSE [st EXCEPT !.raised = "RuntimeError"]

_read_input_registers(st, dev) ==
    IF connected(st.client)
    THEN LET r == ReadLoop("register", InputRegistersAgc150, 1,
                      Len(InputRegistersAgc150),
                      [fields |-> st.fields, reads |-> st.reads, raised |-> "-"], dev)
         IN  [st EXCEPT !.fields = r.fields, !.reads = r.reads, !.raised = r.raised]
    ELSE [st EXCEPT !.raised = "RuntimeError"]

\* for array_field in ARRAY_FIELDS_AGC150: agc150_fields[array_field] = [None]*n
RECURSIVE InitArrays(_, _)
InitArrays(i, fields) ==
    IF i > Len(ArrayFieldOrder) THEN fields
    ELSE LET array_field == ArrayFieldOrder[i]
             array_field_size == Len(ARRAY_FIELDS_AGC150[array_field])
         IN  InitArrays(i + 1,
                 DictSet(fields, array_field,
                     ListField([k \in 1..array_field_size |-> NoneVal])))

\* TELEMETRY_WAIT = 1.0 (seconds)
TELEMETRY_WAIT == 1

\* await self.tel_agcGenset150.set_write(**self.agc150_fields)
\* await asyncio.sleep(TELEMETRY_WAIT)
WriteAndWait(st) ==
    [st EXCEPT !.writes = Append(st.writes, st.fields),
               !.reads = st.reads \o << << "set_write", 0 >>,
                                        << "sleep", TELEMETRY_WAIT >> >>]

\* The connection may be lost while a read is awaited: dev.drop_after_discrete
\* says whether it is still up when _read_input_registers checks it.
\* (variant: the input registers are read before the discrete inputs)
process_telemetry_registersFirst(st, dev) ==
    IF connected(st.client)
    THEN LET s1 == [st EXCEPT !.fields = InitArrays(1, st.fields)]
             s2 == _read_input_registers(s1, dev)
             s3 == IF dev.drop_after_discrete
                   THEN [s2 EXCEPT !.client.connected = FALSE]
                   ELSE s2
             s4 == IF s3.raised # "-" THEN s3 ELSE _read_discrete_inputs(s3, dev)
         IN  IF s4.raised # "-" THEN s4 ELSE WriteAndWait(s4)
    ELSE [st EXCEPT !.raised = "RuntimeError"]

\* (variant: the fields are written whether or not a read has raised)
process_telemetry_writesAnyway(st, dev) ==
    IF connected(st.client)
    THEN LET s1 == [st EXCEPT !.fields = InitArrays(1, st.fields)]
             s2 == _read_discrete_inputs(s1, dev)
             s3 == IF dev.drop_after_discrete
                   THEN [s2 EXCEPT !.client.connected = FALSE]
                   ELSE s2
             s4 == IF s3.raised # "-" THEN s3 ELSE _read_input_registers(s3, dev)
         IN  WriteAndWait(s4)
    ELSE [st EXCEPT !.raised = "RuntimeError"]

process_telemetry(st, dev) ==
    IF connected(st.client)
    THEN LET s1 == [st EXCEPT !.fields = InitArrays(1, st.fields)]
             s2 == _read_discrete_inputs(s1, dev)
             s3 == IF dev.drop_after_discrete
                   THEN [s2 EXCEPT !.client.connected = FALSE]
                   ELSE s2
             s4 == IF s3.raised # "-" THEN s3 ELSE _read_input_registers(s3, dev)
         IN  IF s4.raised # "-" THEN s4 ELSE WriteAndWait(s4)
    ELSE [st EXCEPT !.raised = "RuntimeError"]

\* ModbusAgc150Connector.connect.  connect_ok: whether the TCP connection
\* was made (AsyncModbusTcpClient.connect returns False when it was not).
\* simulator_start: whether simulator.start() was awaited.
connect(c, sim, connect_ok) ==
    IF ~connected(c)
    THEN [client |-> [exists |-> TRUE, connected |-> connect_ok],
          simulator |-> IF sim # "None" THEN "started" ELSE sim,
          simulator_start |-> sim # "None"]
    ELSE [client |-> c, simulator |-> sim, simulator_start |-> FALSE]

\* (variant: the client is kept)
disconnect_keepsClient(c, sim) == [client |-> c, simulator |-> sim]

\* ModbusAgc150Connector.disconnect.  An exception of client.close() is
\* swallowed and the client dropped in the finally clause.
disconnect(c, sim) ==
    IF connected(c)
    THEN [client |-> NoClient,
          simulator |-> IF sim # "None" THEN "stopped" ELSE sim]
    ELSE [client |-> c, simulator |-> sim]

-----------------------------------------------------------------------------
(* Modbus: the state machine.                                              *)

AgcTopic == "tel_agcGenset150"

NoCall == [op |-> "-", entry_client |-> NoClient, outcome |-> "-",
           writes_before |-> 0]

\* ModbusAgc150Connector.__init__ builds ModbusSimulator(log=..., ...) when
\* simulation_mode is 1; ModbusSimulator.__init__ takes no `log` argument,
\* so that construction raises TypeError and no connector exists.
ConstructorOutcome(mode) == IF mode = 1 THEN "TypeError" ELSE "ok"

ModbusIdle ==
    /\ simulation_mode = 0
    /\ ctor_outcome = "-"
    /\ client = NoClient
    /\ simulator = "None"
    /\ agc150_fields = EmptyDict
    /\ data_client_connected = FALSE
    /\ client_reads = << >>
    /\ last_call = NoCall
    /\ cycles = 0

\* A connector that holds a simulator, as simulation mode is to give it:
\* self.simulator built and not yet started, host and port the simulator's.
\* (ModbusSimulator(log=...) raises in this revision; the connector here is
\* the one the constructor is written to build.)
SimulatedInit ==
    /\ simulation_mode = 1
    /\ ctor_outcome = "ok"
    /\ client = NoClient
    /\ simulator = "stopped"
    /\ agc150_fields = EmptyDict
    /\ data_client_connected = FALSE
    /\ client_reads = << >>
    /\ last_call = NoCall
    /\ cycles = 0
    /\ topics = [x \in {AgcTopic} |-> << >>]

ModbusInit ==
    /\ simulation_mode \in {0, 1}
    /\ ctor_outcome = ConstructorOutcome(simulation_mode)
    /\ client = NoClient
    /\ simulator = "None"
    /\ agc150_fields = EmptyDict
    /\ data_client_connected = FALSE
    /\ client_reads = << >>
    /\ last_call = NoCall
    /\ cycles = 0
    /\ topics = [x \in {AgcTopic} |-> << >>]

\* What a Modbus step leaves alone: the variables of the other engines.
ModbusFrame == UNCHANGED << valueVars, mibVars, snmpVars, extractVars >>

Called(op, raised) ==
    [op |-> op, entry_client |-> client,
     outcome |-> IF raised = "-" THEN "ok" ELSE raised,
     writes_before |-> Len(topics[AgcTopic])]

\* ModbusDataClient.connect
Connect ==
    /\ ctor_outcome = "ok"
    /\ \E connect_ok \in BOOLEAN :
         LET r == connect(client, simulator, connect_ok)
         IN  /\ client' = r.client
             /\ simulator' = r.simulator
    /\ data_client_connected' = TRUE
    /\ client_reads' = << >>
    /\ last_call' = Called("connect", "-")
    /\ UNCHANGED << simulation_mode, ctor_outcome, agc150_fields, cycles, topics >>
    /\ ModbusFrame

\* ModbusDataClient.disconnect
Disconnect ==
    /\ ctor_outcome = "ok"
    /\ LET r == disconnect(client, simulator)
       IN  /\ client' = r.client
           /\ simulator' = r.simulator
    /\ data_client_connected' = FALSE
    /\ client_reads' = << >>
    /\ last_call' = Called("disconnect", "-")
    /\ UNCHANGED << simulation_mode, ctor_outcome, agc150_fields, cycles, topics >>
    /\ ModbusFrame

CallState ==
    [client |-> client, fields |-> agc150_fields, reads |-> << >>,
     raised |-> "-", writes |-> topics[AgcTopic]]

Commit(op, r) ==
    /\ client' = r.client
    /\ agc150_fields' = r.fields
    /\ client_reads' = r.reads
    /\ topics' = [topics EXCEPT ![AgcTopic] = r.writes]
    /\ last_call' = Called(op, r.raised)
    /\ cycles' = cycles + 1
    /\ UNCHANGED << simulation_mode, ctor_outcome, simulator, data_client_connected >>
    /\ ModbusFrame

\* ModbusDataClient.read_data -> ModbusAgc150Connector.process_telemetry
ReadData ==
    /\ ctor_outcome = "ok"
    /\ cycles < MaxCycles
    /\ \E dev \in DeviceStates :
         Commit("process_telemetry", process_telemetry(CallState, dev))

\* ModbusAgc150Connector._read_discrete_inputs called on its own
ReadDiscreteInputs ==
    /\ ctor_outcome = "ok"
    /\ cycles < MaxCycles
    /\ Commit("_read_discrete_inputs",
              _read_discrete_inputs(CallState, HealthyDevice))

\* ModbusAgc150Connector._read_input_registers called on its own
ReadInputRegisters ==
    /\ ctor_outcome = "ok"
    /\ cycles < MaxCycles
    /\ Commit("_read_input_registers",
              _read_input_registers(CallState, HealthyDevice))

\* The TCP connection of an existing client drops (client.connected turns
\* False without any call of the connector).
ConnectionLost ==
    /\ connected(client)
    /\ client' = [client EXCEPT !.connected = FALSE]
    /\ last_call' = Called("connection_lost", "-")
    /\ client_reads' = << >>
    /\ UNCHANGED << simulation_mode, ctor_outcome, simulator, agc150_fields,
                    data_client_connected, cycles, topics >>
    /\ ModbusFrame

\* pymodbus re-establishes the connection of an existing client.
ConnectionRestored ==
    /\ client.exists /\ ~client.connected
    /\ client' = [client EXCEPT !.connected = TRUE]
    /\ last_call' = Called("connection_restored", "-")
    /\ client_reads' = << >>
    /\ UNCHANGED << simulation_mode, ctor_outcome, simulator, agc150_fields,
                    data_client_connected, cycles, topics >>
    /\ ModbusFrame

ModbusNext ==
    \/ Connect
    \/ Disconnect
    \/ ReadData
    \/ ReadDiscreteInputs
    \/ ReadInputRegisters
    \/ ConnectionLost
    \/ ConnectionRestored

-----------------------------------------------------------------------------
(* _process_modbus_value taken alone, on every 16 bit word and on both     *)
(* booleans.                                                               *)

RegisterFieldNames ==
    {_get_xml_field_name(InputRegistersAgc150[i][1]) :
        i \in 1..Len(InputRegistersAgc150)}
DiscreteFieldNames ==
    {_get_xml_field_name(DiscreteInputsAgc150[i][1]) :
        i \in 1..Len(DiscreteInputsAgc150)}

\* One register field of each decimal factor (0, 1, 2, 3) and the array
\* field: the fields every 16 bit word is decoded for.  The words of
\* BoundaryWords are decoded for every register field.
ProbeFields ==
    {"applicationVersion", "dcSupplyTerm12", "generatorFrequencyL1",
     "airFilterDifferentialPressure", "windingTemperature"}
BoundaryWords == {0, 1, 12345, Two15 - 1, Two15, Two15 + 1, Two16 - 1}

ValueIdle == mv_value = NoneVal /\ mv_fields = {} /\ mv_results = EmptyDict

ValueInit ==
    /\ \/ /\ mv_value \in {IntVal(v) : v \in 0..(Two16 - 1)}
          /\ mv_fields = ProbeFields
       \/ /\ mv_value \in {IntVal(v) : v \in BoundaryWords}
          /\ mv_fields = RegisterFieldNames
       \/ /\ mv_value \in {BoolVal(TRUE), BoolVal(FALSE)}
          /\ mv_fields = DiscreteFieldNames
    /\ mv_results = EmptyDict
    /\ topics = << >>

ProcessValue ==
    /\ mv_results = EmptyDict
    /\ mv_results' = [f \in mv_fields |-> _process_modbus_value(f, mv_value)]
    /\ UNCHANGED << mv_value, mv_fields, topics >>
    /\ UNCHANGED << modbusVars, mibVars, snmpVars, extractVars >>

ValueNext == ProcessValue

-----------------------------------------------------------------------------
(* MibTreeHolder.  A *.mib document is modelled by the sequence of the      *)
(* declarations the three regular expressions MODULE_IDENTITY,              *)
(* OBJECT_IDENTIFIER and OBJECT_TYPE find in it, each with the fields the   *)
(* handlers extract.  An oid is the sequence of its numeric components.     *)

BRANCH == "BRANCH"
LEAF == "LEAF"
NoIndex == "<None>"

\* The parent attribute is a reference to the element object that was in
\* the tree when the child was made; what is kept of it is its name, oid
\* and index.
NoParent == [exists |-> FALSE, name |-> "", oid |-> << >>, index |-> NoIndex]
ParentRef(elt) ==
    [exists |-> TRUE, name |-> elt.name, oid |-> elt.oid, index |-> elt.index]

MibTreeElement(name, description, oid, parent, type, index) ==
    [name |-> name, description |-> description, oid |-> oid,
     parent |-> parent, type |-> type, index |-> index]

_add_default_elements ==
    LET snmp == MibTreeElement("snmp", "snmp", << 1, 3, 6, 1 >>, NoParent, BRANCH, NoIndex)
        system == MibTreeElement("system", "system", << 1, 3, 6, 1, 2 >>,
                                 ParentRef(snmp), BRANCH, NoIndex)
        sys_descr == MibTreeElement("sysDescr", "System Description.",
                                    << 1, 3, 6, 1, 2, 1, 1, 1 >>,
                                    ParentRef(system), BRANCH, NoIndex)
        private == MibTreeElement("private", "private", << 1, 3, 6, 1, 4 >>,
                                  ParentRef(snmp), BRANCH, NoIndex)
        enterprises == MibTreeElement("enterprises", "enterprises",
                                      << 1, 3, 6, 1, 4, 1 >>,
                                      ParentRef(private), BRANCH, NoIndex)
    IN  DictSet(DictSet(DictSet(DictSet(DictSet(EmptyDict,
            snmp.name, snmp), system.name, system), sys_descr.name, sys_descr),
            private.name, private), enterprises.name, enterprises)

_get_name_replacement(name) ==
    CASE name = "schneiderElectric" -> "schneiderPm5xxx"
      [] name = "synaccess" -> "netbooter"
      [] name = "xupsMIB" -> "xups"
      [] OTHER -> name

\* The element found, or None.
_get_parent(tree, parent_name) ==
    LET n == _get_name_replacement(parent_name)
    IN  IF n \in DOMAIN tree THEN ParentRef(tree[n]) ELSE NoParent

DictPop(d, k) == [x \in DOMAIN d \ {k} |-> d[x]]

\* The builder's state: tree, pending modules, outcome so far, and the
\* record of the modules that were put on hold (not a field of the class).
MibState(tree, pending, status, deferred) ==
    [tree |-> tree, pending |-> pending, status |-> status, deferred |-> deferred]

_process_mod_id(st, d, at) ==
    LET name == _get_name_replacement(d.name)
        parent_name == _get_name_replacement(d.parent)
        parent == _get_parent(st.tree, parent_name)
    IN  IF parent.exists
        THEN [st EXCEPT !.tree = DictSet(st.tree, name,
                 MibTreeElement(name, name, Append(parent.oid, d.num),
                                parent, BRANCH, NoIndex))]
        ELSE [st EXCEPT !.pending = DictSet(st.pending, parent_name,
                                            << name, d.num >>),
                        !.deferred = st.deferred \cup
                            {[name |-> name, parent |-> parent_name,
                              num |-> d.num, at |-> at]}]

\* `assert parent is not None, f"No parent found for {name=!r}"` failing.
\* (variant: the declaration is passed over and the construction goes on)
NoParentFound_passedOver(st) == st

NoParentFound(st) == [st EXCEPT !.status = "AssertionError"]

_process_obj_id(st, d) ==
    LET name == _get_name_replacement(d.name)
        \* the pending module, added under the element just added
        pending(tree, branch, parent) ==
            [st EXCEPT !.tree = DictSet(tree, branch[1],
                           MibTreeElement(branch[1], branch[1],
                                          Append(parent.oid, branch[2]),
                                          parent, BRANCH, NoIndex)),
                       !.pending = DictPop(st.pending, name)]
        added(tree) ==
            IF name \in DOMAIN st.pending
            THEN pending(tree, st.pending[name], _get_parent(tree, name))
            ELSE [st EXCEPT !.tree = tree]
        add(parent) ==
            IF ~parent.exists THEN NoParentFound(st)
            ELSE added(DictSet(st.tree, name,
                           MibTreeElement(name, name, Append(parent.oid, d.num),
                                          parent, BRANCH, NoIndex)))
    IN  add(_get_parent(st.tree, d.parent))

\* (variant: a leaf given its parent's oid)
_process_obj_type_parentOid(st, d) ==
    IF d.parent \notin DOMAIN st.tree THEN [st EXCEPT !.status = "KeyError"]
    ELSE LET parent == ParentRef(st.tree[d.parent])
         IN  [st EXCEPT !.tree = DictSet(st.tree, d.name,
                  MibTreeElement(d.name, d.description, parent.oid, parent,
                                 LEAF, d.index))]

_process_obj_type(st, d) ==
    IF d.parent \notin DOMAIN st.tree THEN [st EXCEPT !.status = "KeyError"]
    ELSE LET parent == ParentRef(st.tree[d.parent])
         IN  [st EXCEPT !.tree = DictSet(st.tree, d.name,
                  MibTreeElement(d.name, d.description,
                                 Append(parent.oid, d.num), parent, LEAF,
                                 d.index))]

\* --- the documents
MODULE_IDENTITY == "MODULE-IDENTITY"
OBJECT_IDENTIFIER == "OBJECT IDENTIFIER"
OBJECT_TYPE == "OBJECT-TYPE"

Decl(kind, name, parent, num, description, index) ==
    [kind |-> kind, name |-> name, parent |-> parent, num |-> num,
     description |-> description, index |-> index]

\* Declarations the documents are written from.  The data directory is not
\* part of the sources, so these are inputs: declarations of the shapes
\* the handlers accept, with the names the code and its test refer to.
DeclPool ==
    { Decl(MODULE_IDENTITY, "xupsMIB", "eaton", 1, "", NoIndex),
      Decl(MODULE_IDENTITY, "eatonPdu", "eaton", 6, "", NoIndex),
      Decl(OBJECT_IDENTIFIER, "eaton", "enterprises", 534, "", NoIndex),
      Decl(OBJECT_IDENTIFIER, "xupsIdent", "xupsMIB", 1, "", NoIndex),
      Decl(OBJECT_TYPE, "xupsIdentManufacturer", "xupsIdent", 1,
           "The UPS Manufacturer Name.", NoIndex),
      Decl(MODULE_IDENTITY, "raritan", "enterprises", 13742, "", NoIndex),
      Decl(OBJECT_TYPE, "outletLabel", "raritan", 5,
           "The outlet label.", "pduId, outletId"),
      Decl(OBJECT_IDENTIFIER, "synaccess", "enterprises", 21728, "", NoIndex) }

\* The two documents, in the order path comparison puts them.
PathOrder == << "eaton.mib", "raritan.mib" >>
PathRank(name) == CHOOSE i \in 1..Len(PathOrder) : PathOrder[i] = name
PathLess(a, b) == PathRank(a.name) < PathRank(b.name)

MibFile(name, decls) == [name |-> name, decls |-> decls]

\* DATA_DIR.glob("*.mib"): the documents in an order the file system picks.
Listing(a, b, swapped) ==
    IF swapped THEN << MibFile(PathOrder[2], b), MibFile(PathOrder[1], a) >>
    ELSE << MibFile(PathOrder[1], a), MibFile(PathOrder[2], b) >>

\* sorted(...): insertion of the head into the sorted tail.
RECURSIVE InsertSorted(_, _)
InsertSorted(f, files) ==
    IF files = << >> THEN << f >>
    ELSE IF PathLess(Head(files), f)
         THEN << Head(files) >> \o InsertSorted(f, Tail(files))
         ELSE << f >> \o files

\* (variant: the listing taken as the file system gives it)
sorted_asListed(files) == files

RECURSIVE sorted(_)
sorted(files) ==
    IF files = << >> THEN << >>
    ELSE InsertSorted(Head(files), sorted(Tail(files)))

\* The declarations in the order the two loops of _add_mib_elements meet them.
RECURSIVE DeclsOf(_)
DeclsOf(files) ==
    IF files = << >> THEN << >> ELSE Head(files).decls \o DeclsOf(Tail(files))

\* One turn of the inner loop: the handler of the matching expression.
ProcessDecl(st, d, at) ==
    CASE d.kind = MODULE_IDENTITY -> _process_mod_id(st, d, at)
      [] d.kind = OBJECT_IDENTIFIER -> _process_obj_id(st, d)
      [] d.kind = OBJECT_TYPE -> _process_obj_type(st, d)

RECURSIVE RunDecls(_, _, _)
RunDecls(st, decls, i) ==
    LET continue(nxt) ==
            IF nxt.status # "building" THEN nxt ELSE RunDecls(nxt, decls, i + 1)
    IN  IF i > Len(decls) THEN [st EXCEPT !.status = "done"]
        ELSE continue(ProcessDecl(st, decls[i], i))

_add_mib_elements(st, listing) == RunDecls(st, DeclsOf(sorted(listing)), 1)

\* MibTreeHolder(): the whole construction over one listing.
MibTreeHolder(listing) ==
    _add_mib_elements(MibState(_add_default_elements, EmptyDict, "building", {}),
                      listing)

\* --- the construction, declaration by declaration
MibIdle ==
    /\ mib_listing = << >> /\ mib_files = << >> /\ mib_pos = 1
    /\ mib_tree = EmptyDict /\ pending_modules = EmptyDict
    /\ mib_status = "-" /\ mib_deferred = {}

MibFrame == UNCHANGED << modbusVars, valueVars, snmpVars, extractVars, topics >>

MibInit ==
    \* two documents holding MaxDecls declarations or fewer in all
    /\ \E ka \in 0..MaxDecls : \E kb \in 0..(MaxDecls - ka) :
       \E a \in [1..ka -> DeclPool], b \in [1..kb -> DeclPool] :
       \E swapped \in BOOLEAN :
           mib_listing = Listing(a, b, swapped)
    /\ mib_files = sorted(mib_listing)
    /\ mib_pos = 1
    /\ mib_tree = _add_default_elements
    /\ pending_modules = EmptyDict
    /\ mib_status = "building"
    /\ mib_deferred = {}
    /\ topics = << >>

MibNow == MibState(mib_tree, pending_modules, mib_status, mib_deferred)
NextDecl == DeclsOf(mib_files)[mib_pos]
HasNextDecl(kind) ==
    /\ mib_status = "building"
    /\ mib_pos <= Len(DeclsOf(mib_files))
    /\ NextDecl.kind = kind

MibCommit(nxt) ==
    /\ mib_tree' = nxt.tree
    /\ pending_modules' = nxt.pending
    /\ mib_status' = nxt.status
    /\ mib_deferred' = nxt.deferred
    /\ mib_pos' = mib_pos + 1
    /\ UNCHANGED << mib_listing, mib_files >>
    /\ MibFrame

ProcessModId ==
    /\ HasNextDecl(MODULE_IDENTITY)
    /\ MibCommit(_process_mod_id(MibNow, NextDecl, mib_pos))

ProcessObjId ==
    /\ HasNextDecl(OBJECT_IDENTIFIER)
    /\ MibCommit(_process_obj_id(MibNow, NextDecl))

ProcessObjType ==
    /\ HasNextDecl(OBJECT_TYPE)
    /\ MibCommit(_process_obj_type(MibNow, NextDecl))

\* The loops of _add_mib_elements run out: the constructor returns.
ConstructorReturns ==
    /\ mib_status = "building"
    /\ mib_pos > Len(DeclsOf(mib_files))
    /\ mib_status' = "done"
    /\ UNCHANGED << mib_listing, mib_files, mib_pos, mib_tree,
                    pending_modules, mib_deferred >>
    /\ MibFrame

MibNext == ProcessModId \/ ProcessObjId \/ ProcessObjType \/ ConstructorReturns

-----------------------------------------------------------------------------
(* SnmpDataClient.  A string is the sequence of its characters, an oid     *)
(* (a dotted string in the code) the sequence of its numeric components.   *)

Digits == << "0", "1", "2", "3", "4", "5", "6", "7", "8", "9" >>
IsDigit(c) == \E i \in 1..10 : Digits[i] = c
DigitValue(c) == (CHOOSE i \in 1..10 : Digits[i] = c) - 1

\* str(n) for a natural number n.
RECURSIVE str(_)
str(n) == IF n < 10 THEN << Digits[n + 1] >>
          ELSE str(n \div 10) \o << Digits[(n % 10) + 1] >>

\* The value of a run of digits.
RECURSIVE DigitsValue(_)
DigitsValue(s) ==
    IF s = << >> THEN 0
    ELSE 10 * DigitsValue(SubSeq(s, 1, Len(s) - 1)) + DigitValue(s[Len(s)])

AllDigits(s) == s # << >> /\ \A i \in 1..Len(s) : IsDigit(s[i])
IsSign(c) == c \in {"+", "-"}
Signed(c, n) == IF c = "-" THEN 0 - n ELSE n

\* The result of a conversion: a value, or the exception raised.
Ok(v) == [raised |-> "-", v |-> v]
Raised(e) == [raised |-> e, v |-> 0]

\* int(s) for a string over digits, signs, "." and letters.
int(s) ==
    IF AllDigits(s) THEN Ok(DigitsValue(s))
    ELSE IF Len(s) > 1 /\ IsSign(s[1]) /\ AllDigits(Tail(s))
         THEN Ok(Signed(s[1], DigitsValue(Tail(s))))
         ELSE Raised("ValueError")

\* Values handed to a topic: one record shape for int, float (the exact
\* quotient num / den), NaN, str and list.
SInt(n) == [t |-> "int", num |-> n, den |-> 1, text |-> << >>, items |-> << >>]
SFloat(num, den) ==
    [t |-> "float", num |-> num, den |-> den, text |-> << >>, items |-> << >>]
SNaN == [t |-> "nan", num |-> 0, den |-> 1, text |-> << >>, items |-> << >>]
SStr(s) == [t |-> "str", num |-> 0, den |-> 1, text |-> s, items |-> << >>]
SList(items) ==
    [t |-> "list", num |-> 0, den |-> 1, text |-> << >>, items |-> items]

\* The length of the longest run of digits of s that starts at i.
RECURSIVE DigitRun(_, _)
DigitRun(s, i) ==
    IF i <= Len(s) /\ IsDigit(s[i]) THEN 1 + DigitRun(s, i + 1) ELSE 0

\* The mantissa of a numeric literal at i: [-+]? (\d*\.\d+ | \d+\.?), the
\* first alternative first.  Gives the position after the match and the
\* value, or len = 0 when nothing matches at i.  j is the position after
\* the sign, dot the position after the digits that follow, frac the number
\* of digits after a "." at dot.
MantissaAt(s, i) ==
    LET signed == i <= Len(s) /\ IsSign(s[i])
        sgn == IF signed THEN s[i] ELSE "+"
        literal(j, dot, frac) ==
            IF frac > 0
            THEN [len |-> dot + frac + 1 - i,
                  num |-> Signed(sgn, DigitsValue(SubSeq(s, j, dot - 1)) * Pow10(frac)
                                      + DigitsValue(SubSeq(s, dot + 1, dot + frac))),
                  den |-> Pow10(frac)]
            ELSE IF dot > j
            THEN [len |-> (IF dot <= Len(s) /\ s[dot] = "." THEN dot + 1 ELSE dot) - i,
                  num |-> Signed(sgn, DigitsValue(SubSeq(s, j, dot - 1))),
                  den |-> 1]
            ELSE [len |-> 0, num |-> 0, den |-> 1]
        fraction(j, dot) ==
            literal(j, dot, IF dot <= Len(s) /\ s[dot] = "."
                            THEN DigitRun(s, dot + 1) ELSE 0)
        whole(j) == fraction(j, j + DigitRun(s, j))
    IN  whole(IF signed THEN i + 1 ELSE i)

\* A numeric literal at i, as rx matches it: the mantissa and, when an
\* "e" or "E", an optional sign and at least one digit follow, the exponent.
LiteralAt(s, i) ==
    LET scaled(m, sgn, q, n) ==
            IF n = 0 THEN m
            ELSE IF sgn = "-"
            THEN [len |-> q + n - i, num |-> m.num,
                  den |-> m.den * Pow10(DigitsValue(SubSeq(s, q, q + n - 1)))]
            ELSE [len |-> q + n - i,
                  num |-> m.num * Pow10(DigitsValue(SubSeq(s, q, q + n - 1))),
                  den |-> m.den]
        digits(m, sgn, q) == scaled(m, sgn, q, DigitRun(s, q))
        exponent(m, p) ==
            IF m.len = 0 \/ p > Len(s) \/ s[p] \notin {"e", "E"} THEN m
            ELSE IF p + 1 <= Len(s) /\ IsSign(s[p + 1])
            THEN digits(m, s[p + 1], p + 2)
            ELSE digits(m, "+", p + 1)
        mantissa(m) == exponent(m, i + m.len)
    IN  mantissa(MantissaAt(s, i))

\* s.strip() for the blank.
RECURSIVE Strip(_)
Strip(s) ==
    IF s = << >> THEN s
    ELSE IF Head(s) = " " THEN Strip(Tail(s))
    ELSE IF s[Len(s)] = " " THEN Strip(SubSeq(s, 1, Len(s) - 1))
    ELSE s

\* float(s): the whole string, blanks around it left out, is one literal.
\* The strings of the model hold no "_" and do not spell inf or nan.
float(s) ==
    LET fullmatch(t, m) == IF t # << >> /\ m.len = Len(t)
                           THEN Ok(SFloat(m.num, m.den))
                           ELSE Raised("ValueError")
        stripped(t) == fullmatch(t, LiteralAt(t, 1))
    IN  stripped(Strip(s))

\* rx.findall(s)[0]: the leftmost literal of s, if there is one.
RECURSIVE FirstLiteral(_, _)
FirstLiteral(s, i) ==
    LET search(m) == IF m.len > 0 THEN Ok(SFloat(m.num, m.den))
                     ELSE FirstLiteral(s, i + 1)
    IN  IF i > Len(s) THEN Raised("ValueError") ELSE search(LiteralAt(s, i))

\* s.startswith(p) for a string or a sequence of components.
IsPrefix(p, s) == Len(p) <= Len(s) /\ SubSeq(s, 1, Len(p)) = p

\* --- characters and bytes
\* The characters of the codes 32 to 126 (the grave accent, code 96, by its
\* name), and the names the characters of the codes 0 to 31 go by; each
\* entry stands for one character.
PrintableChars ==
    <<
       " ", "!", "\"", "#", "$", "%", "&", "'", "(", ")", "*", "+",
       ",", "-", ".", "/", "0", "1", "2", "3", "4", "5", "6", "7",
       "8", "9", ":", ";", "<", "=", ">", "?", "@", "A", "B", "C",
       "D", "E", "F", "G", "H", "I", "J", "K", "L", "M", "N", "O",
       "P", "Q", "R", "S", "T", "U", "V", "W", "X", "Y", "Z", "[",
       "\\", "]", "^", "_", "GRAVE", "a", "b", "c", "d", "e", "f", "g",
       "h", "i", "j", "k", "l", "m", "n", "o", "p", "q", "r", "s",
       "t", "u", "v", "w", "x", "y", "z", "{", "|", "}", "~" >>
ControlChars ==
    <<
       "NUL", "SOH", "STX", "ETX", "EOT", "ENQ", "ACK", "BEL",
       "BS", "HT", "LF", "VT", "FF", "CR", "SO", "SI",
       "DLE", "DC1", "DC2", "DC3", "DC4", "NAK", "SYN", "ETB",
       "CAN", "EM", "SUB", "ESC", "FS", "GS", "RS", "US" >>

\* chr(b) for a byte below 128.
chr(b) ==
    IF b < 32 THEN ControlChars[b + 1]
    ELSE IF b < 127 THEN PrintableChars[b - 31]
    ELSE "DEL"

\* ord(c)
ord(c) == CHOOSE b \in 0..127 : chr(b) = c

HexDigits ==
    << "0", "1", "2", "3", "4", "5", "6", "7", "8", "9",
       "a", "b", "c", "d", "e", "f" >>
UpperHexDigits == << "A", "B", "C", "D", "E", "F" >>

IsHexDigit(c) ==
    (\E k \in 1..16 : HexDigits[k] = c) \/ (\E k \in 1..6 : UpperHexDigits[k] = c)
HexDigitValue(c) ==
    IF \E k \in 1..16 : HexDigits[k] = c
    THEN (CHOOSE k \in 1..16 : HexDigits[k] = c) - 1
    ELSE (CHOOSE k \in 1..6 : UpperHexDigits[k] = c) + 9

\* [a-zA-Z0-9]
IsAlnum(c) == c \in Range(PrintableChars) /\
              (ord(c) \in 48..57 \/ ord(c) \in 65..90 \/ ord(c) \in 97..122)

\* hx.findall(s)[0]: the run of letters and digits s begins with.
RECURSIVE AlnumRun(_)
AlnumRun(s) ==
    IF s = << >> \/ ~IsAlnum(Head(s)) THEN << >>
    ELSE << Head(s) >> \o AlnumRun(Tail(s))

\* bytes.fromhex(s) for a string without blanks: the bytes of the pairs of
\* hexadecimal digits; ValueError on a digit left over and on any other
\* character.
fromhex(s) ==
    IF Len(s) % 2 # 0 \/ \E k \in 1..Len(s) : ~IsHexDigit(s[k])
    THEN Raised("ValueError(fromhex)")
    ELSE Ok([k \in 1..(Len(s) \div 2) |->
                16 * HexDigitValue(s[2 * k - 1]) + HexDigitValue(s[2 * k])])

\* bytes.decode("utf-8").  The strings of the model hold no byte from 0x80
\* to 0xBF, so that no sequence of more than one byte is well formed: a
\* byte from 0x80 on raises UnicodeDecodeError.
decode(bytes) ==
    IF \E k \in 1..Len(bytes) : bytes[k] >= 128 THEN Raised("UnicodeDecodeError")
    ELSE Ok([k \in 1..Len(bytes) |-> chr(bytes[k])])

\* (variant: the string is searched as it is, "0x" or not)
SearchedText_raw(float_string) == Ok(float_string)

\* The text searched for a literal when float() has raised: the string
\* itself, or for a string that starts with "0x" the text its leading
\* run of letters and digits after the "0x" decodes to.
SearchedText(float_string) ==
    LET decoded(bytes) == IF bytes.raised # "-" THEN bytes ELSE decode(bytes.v)
    IN  IF IsPrefix(<< "0", "x" >>, float_string)
        THEN decoded(fromhex(AlnumRun(SubSeq(float_string, 3, Len(float_string)))))
        ELSE Ok(float_string)

\* try: float(float_string); except ValueError as e: the first literal of
\* the searched text, and e when there is none.
_extract_float_from_string(float_string) ==
    LET search(text) == IF text.raised # "-" THEN text
                        ELSE FirstLiteral(text.v, 1)
        except(direct) == IF direct.raised = "-" THEN direct
                          ELSE search(SearchedText(float_string))
    IN  except(float(float_string))

\* --- _extract_float_from_string taken alone, on strings of three makes:
\* plain text, text with an exponent, and "0x" strings as a device sends
\* them, well formed or not.
MaxLen == 4
MaxPayload == 3

\* The strings over a set of characters, of length n or less.
RECURSIVE StringsUpTo(_, _)
StringsUpTo(chars, n) ==
    IF n = 0 THEN {<< >>}
    ELSE LET shorter == StringsUpTo(chars, n - 1)
         IN  shorter \cup {Append(t, c) : t \in shorter, c \in chars}

PlainChars == {"1", "5", ".", "-", "V", " "}
PlainStrings == StringsUpTo(PlainChars, MaxLen)

ExponentStrings ==
    { m \o e \o sg \o d \o t :
        m \in {<< >>, << "1" >>, << "1", ".", "5" >>, << ".", "5" >>},
        e \in {<< "e" >>, << "E" >>},
        sg \in {<< >>, << "+" >>, << "-" >>},
        d \in {<< >>, << "2" >>, << "0", "3" >>},
        t \in {<< >>, << "V" >>} }

\* format(ord(c), "x") for every character of a text, joined.
RECURSIVE hexlify(_)
hexlify(text) ==
    IF text = << >> THEN << >>
    ELSE LET b == ord(Head(text))
         IN  (IF b < 16 THEN << HexDigits[b + 1] >>
              ELSE << HexDigits[(b \div 16) + 1], HexDigits[(b % 16) + 1] >>)
             \o hexlify(Tail(text))

\* What is encoded, and what follows the encoded text: nothing, the "00" a
\* Netbooter unit appends, a digit left over, a letter that is no
\* hexadecimal digit, a byte that is no UTF-8, and text after a ".".
PayloadChars == {"1", ".", "5", "V"}
Payloads == StringsUpTo(PayloadChars, MaxPayload)
HexTails ==
    {<< >>, << "0", "0" >>, << "0" >>, << "V" >>, << "e", "3" >>, << ".", "5" >>}
HexPrefixes == {<< "0", "x" >>, << "0", "X" >>}

Origin(kind, prefix, payload, tail) ==
    [kind |-> kind, prefix |-> prefix, payload |-> payload, tail |-> tail]

NotCalled == [raised |-> "not called", v |-> 0]

ExtractIdle ==
    /\ fs_origin = Origin("-", << >>, << >>, << >>)
    /\ fs_input = << >>
    /\ fs_outcome = NotCalled

ExtractInit ==
    /\ \/ /\ fs_input \in PlainStrings
          /\ fs_origin = Origin("plain", << >>, fs_input, << >>)
       \/ /\ fs_input \in ExponentStrings
          /\ fs_origin = Origin("exponent", << >>, fs_input, << >>)
       \/ \E prefix \in HexPrefixes, payload \in Payloads, tail \in HexTails :
             /\ fs_input = prefix \o hexlify(payload) \o tail
             /\ fs_origin = Origin("hex", prefix, payload, tail)
    /\ fs_outcome = NotCalled
    /\ topics = << >>

ExtractFloat ==
    /\ fs_outcome.raised = "not called"
    /\ fs_outcome' = _extract_float_from_string(fs_input)
    /\ UNCHANGED << fs_origin, fs_input, topics >>
    /\ UNCHANGED << modbusVars, valueVars, mibVars, snmpVars >>

ExtractNext == ExtractFloat

\* --- oids and the tables of mib_utils
\* oid.startswith(prefix) on the dotted strings: the components before the
\* prefix's last one are equal and the next component's digits begin with
\* the digits of the prefix's last component.
startswith(oid, prefix) ==
    LET n == Len(prefix)
    IN  \/ n = 0
        \/ /\ Len(oid) >= n
           /\ SubSeq(oid, 1, n - 1) = SubSeq(prefix, 1, n - 1)
           /\ IsPrefix(str(prefix[n]), str(oid[n]))

FREQUENCY_OID_LIST ==
    { << 1, 3, 6, 1, 4, 1, 534, 1, 3, 1, 0 >>,
      << 1, 3, 6, 1, 4, 1, 534, 1, 4, 2, 0 >>,
      << 1, 3, 6, 1, 4, 1, 534, 1, 5, 1, 0 >> }

RARITAN_EXT_SENS_DEC_DIGITS_IDS ==
    << "temperature", "humidity", "temperature", "humidity",
       "onOff", "onOff", "onOff" >>

RaritanOid ==
    [ InletDecimalDigits |-> << 1, 3, 6, 1, 4, 1, 13742, 6, 3, 3, 4, 1, 7 >>,
      OutletDecimalDigits |-> << 1, 3, 6, 1, 4, 1, 13742, 6, 3, 5, 4, 1, 7 >>,
      ExternalSensorDecimalDigits |->
          << 1, 3, 6, 1, 4, 1, 13742, 6, 3, 6, 3, 1, 17 >>,
      InletTelemetry |-> << 1, 3, 6, 1, 4, 1, 13742, 6, 5, 2, 3, 1, 4 >>,
      OutletTelemetry |-> << 1, 3, 6, 1, 4, 1, 13742, 6, 5, 4, 3, 1, 4 >>,
      ExternalSensorTelemetry |->
          << 1, 3, 6, 1, 4, 1, 13742, 6, 5, 5, 3, 1, 4 >> ]

\* The members whose name holds "DecimalDigits" / "Telemetry", in the
\* order of the enumeration.
RaritanDecimalDigitsOids ==
    << RaritanOid.InletDecimalDigits, RaritanOid.OutletDecimalDigits,
       RaritanOid.ExternalSensorDecimalDigits >>
RaritanTelemetryOids ==
    << RaritanOid.InletTelemetry, RaritanOid.OutletTelemetry,
       RaritanOid.ExternalSensorTelemetry >>

DeviceName == << "netbooter", "raritan", "schneiderPm5xxx", "xups" >>

\* Each member with its value and with the two keys the code derives from
\* its name, f"inlet{name[0].upper()}{name[1:]}" and the same for outlet.
RaritanItemId ==
    << [name |-> "rmsCurrent", value |-> 1, inlet |-> "inletRmsCurrent",
        outlet |-> "outletRmsCurrent"],
       [name |-> "peakCurrent", value |-> 2, inlet |-> "inletPeakCurrent",
        outlet |-> "outletPeakCurrent"],
       [name |-> "unbalancedCurrent", value |-> 3, inlet |-> "inletUnbalancedCurrent",
        outlet |-> "outletUnbalancedCurrent"],
       [name |-> "rmsVoltage", value |-> 4, inlet |-> "inletRmsVoltage",
        outlet |-> "outletRmsVoltage"],
       [name |-> "activePower", value |-> 5, inlet |-> "inletActivePower",
        outlet |-> "outletActivePower"],
       [name |-> "apparentPower", value |-> 6, inlet |-> "inletApparentPower",
        outlet |-> "outletApparentPower"],
       [name |-> "powerFactor", value |-> 7, inlet |-> "inletPowerFactor",
        outlet |-> "outletPowerFactor"],
       [name |-> "activeEnergy", value |-> 8, inlet |-> "inletActiveEnergy",
        outlet |-> "outletActiveEnergy"],
       [name |-> "apparentEnergy", value |-> 9, inlet |-> "inletApparentEnergy",
        outlet |-> "outletApparentEnergy"],
       [name |-> "temperature", value |-> 10, inlet |-> "inletTemperature",
        outlet |-> "outletTemperature"],
       [name |-> "humidity", value |-> 11, inlet |-> "inletHumidity",
        outlet |-> "outletHumidity"],
       [name |-> "onOff", value |-> 14, inlet |-> "inletOnOff",
        outlet |-> "outletOnOff"],
       [name |-> "surgeProtectorStatus", value |-> 22, inlet |-> "inletSurgeProtectorStatus",
        outlet |-> "outletSurgeProtectorStatus"],
       [name |-> "frequency", value |-> 23, inlet |-> "inletFrequency",
        outlet |-> "outletFrequency"],
       [name |-> "phaseAngle", value |-> 24, inlet |-> "inletPhaseAngle",
        outlet |-> "outletPhaseAngle"],
       [name |-> "residualCurrent", value |-> 26, inlet |-> "inletResidualCurrent",
        outlet |-> "outletResidualCurrent"],
       [name |-> "rcmState", value |-> 27, inlet |-> "inletRcmState",
        outlet |-> "outletRcmState"],
       [name |-> "reactivePower", value |-> 29, inlet |-> "inletReactivePower",
        outlet |-> "outletReactivePower"],
       [name |-> "powerQuality", value |-> 32, inlet |-> "inletPowerQuality",
        outlet |-> "outletPowerQuality"],
       [name |-> "displacementPowerFactor", value |-> 35, inlet |-> "inletDisplacementPowerFactor",
        outlet |-> "outletDisplacementPowerFactor"],
       [name |-> "residualDcCurrent", value |-> 36, inlet |-> "inletResidualDcCurrent",
        outlet |-> "outletResidualDcCurrent"],
       [name |-> "crestFactor", value |-> 51, inlet |-> "inletCrestFactor",
        outlet |-> "outletCrestFactor"],
       [name |-> "activePowerDemand", value |-> 54, inlet |-> "inletActivePowerDemand",
        outlet |-> "outletActivePowerDemand"],
       [name |-> "residualAcCurrent", value |-> 55, inlet |-> "inletResidualAcCurrent",
        outlet |-> "outletResidualAcCurrent"],
       [name |-> "voltageThd", value |-> 57, inlet |-> "inletVoltageThd",
        outlet |-> "outletVoltageThd"],
       [name |-> "currentThd", value |-> 58, inlet |-> "inletCurrentThd",
        outlet |-> "outletCurrentThd"],
       [name |-> "unbalancedVoltage", value |-> 60, inlet |-> "inletUnbalancedVoltage",
        outlet |-> "outletUnbalancedVoltage"],
       [name |-> "unbalancedLineLineCurrent", value |-> 61, inlet |-> "inletUnbalancedLineLineCurrent",
        outlet |-> "outletUnbalancedLineLineCurrent"],
       [name |-> "unbalancedLineLineVoltage", value |-> 62, inlet |-> "inletUnbalancedLineLineVoltage",
        outlet |-> "outletUnbalancedLineLineVoltage"] >>

TelemetryItemName ==
    << << "aeActiveEDelivered", "activeEnergyDelivered" >>,
       << "aeApparentEDelivered", "apparentEnergyDelivered" >>,
       << "aeReactiveEDelivered", "reactiveEnergyDelivered" >>,
       << "aeResetDateTime", "resetDateTime" >>,
       << "currentDrawMax1", "acMaxDraw" >>,
       << "currentDrawStatus1", "acCurrentDraw" >>,
       << "fFrequency", "systemFrequency" >>,
       << "lcIC", "loadCurrentC" >>,
       << "lcIa", "loadCurrentA" >>,
       << "lcIb", "loadCurrentB" >>,
       << "lcIn", "neutralCurrent" >>,
       << "midSerialNumber", "serialNumber" >>,
       << "outletStatus", "powerOutletStatus" >>,
       << "pActivePa", "activePowerA" >>,
       << "pActivePb", "activePowerB" >>,
       << "pActivePc", "activePowerC" >>,
       << "pActivePtot", "totalActivePower" >>,
       << "pApparentPa", "apparentPowerA" >>,
       << "pApparentPb", "apparentPowerB" >>,
       << "pApparentPc", "apparentPowerC" >>,
       << "pApparentPtot", "totalApparentPower" >>,
       << "pReactivePa", "reactivePowerA" >>,
       << "pReactivePb", "reactivePowerB" >>,
       << "pReactivePc", "reactivePowerC" >>,
       << "pReactivePtot", "totalReactivePower" >>,
       << "pfPfDisplacementA", "displacementPowerFactorA" >>,
       << "pfPfDisplacementB", "displacementPowerFactorB" >>,
       << "pfPfDisplacementC", "displacementPowerFactorC" >>,
       << "pfPfDisplacementTotal", "totalDisplacementPowerFactor" >>,
       << "pfPfa", "powerFactorA" >>,
       << "pfPfb", "powerFactorB" >>,
       << "pfPfc", "powerFactorC" >>,
       << "pfPftot", "totalPowerFactor" >>,
       << "sysDescr", "systemDescription" >>,
       << "vVab", "measuredLineVoltageVab" >>,
       << "vVan", "measuredLineVoltageVan" >>,
       << "vVbc", "measuredLineVoltageVbc" >>,
       << "vVbn", "measuredLineVoltageVbn" >>,
       << "vVca", "measuredLineVoltageVca" >>,
       << "vVcn", "measuredLineVoltageVcn" >>,
       << "xupsBatCapacity", "batteryCapacity" >>,
       << "xupsBatCurrent", "batteryCurrent" >>,
       << "xupsBatTimeRemaining", "batteryTimeRemaining" >>,
       << "xupsBatVoltage", "batteryVoltage" >>,
       << "xupsBatteryAbmStatus", "batteryAbmStatus" >>,
       << "xupsBypassFrequency", "bypassFrequency" >>,
       << "xupsBypassTable", "bypassTable" >>,
       << "xupsBypassVoltage", "bypassVoltage" >>,
       << "xupsEnvAmbientTemp", "envAmbientTemp" >>,
       << "xupsInputCurrent", "inputCurrent" >>,
       << "xupsInputFrequency", "inputFrequency" >>,
       << "xupsInputTable", "inputTable" >>,
       << "xupsInputVoltage", "inputVoltage" >>,
       << "xupsInputWatts", "inputPower" >>,
       << "xupsOutputCurrent", "outputCurrent" >>,
       << "xupsOutputFrequency", "outputFrequency" >>,
       << "xupsOutputLoad", "outputLoad" >>,
       << "xupsOutputTable", "outputTable" >>,
       << "xupsOutputVoltage", "outputVoltage" >>,
       << "xupsOutputWatts", "outputPower" >> >>

TelemetryItemType ==
    << << "aeActiveEDelivered", "float" >>,
       << "aeApparentEDelivered", "float" >>,
       << "aeReactiveEDelivered", "float" >>,
       << "aeResetDateTime", "string" >>,
       << "currentDrawMax1", "float" >>,
       << "currentDrawStatus1", "float" >>,
       << "fFrequency", "float" >>,
       << "lcIC", "float" >>,
       << "lcIa", "float" >>,
       << "lcIb", "float" >>,
       << "lcIn", "float" >>,
       << "measurementsExternalSensorValue", "float" >>,
       << "measurementsInletSensorValue", "float" >>,
       << "measurementsOutletSensorValue", "float" >>,
       << "midSerialNumber", "string" >>,
       << "outletStatus", "int" >>,
       << "pActivePa", "float" >>,
       << "pActivePb", "float" >>,
       << "pActivePc", "float" >>,
       << "pActivePtot", "float" >>,
       << "pApparentPa", "float" >>,
       << "pApparentPb", "float" >>,
       << "pApparentPc", "float" >>,
       << "pApparentPtot", "float" >>,
       << "pReactivePa", "float" >>,
       << "pReactivePb", "float" >>,
       << "pReactivePc", "float" >>,
       << "pReactivePtot", "float" >>,
       << "pfPfDisplacementA", "float" >>,
       << "pfPfDisplacementB", "float" >>,
       << "pfPfDisplacementC", "float" >>,
       << "pfPfDisplacementTotal", "float" >>,
       << "pfPfa", "float" >>,
       << "pfPfb", "float" >>,
       << "pfPfc", "float" >>,
       << "pfPftot", "float" >>,
       << "sysDescr", "string" >>,
       << "vVab", "float" >>,
       << "vVan", "float" >>,
       << "vVbc", "float" >>,
       << "vVbn", "float" >>,
       << "vVca", "float" >>,
       << "vVcn", "float" >>,
       << "xupsBatCapacity", "float" >>,
       << "xupsBatCurrent", "float" >>,
       << "xupsBatTimeRemaining", "float" >>,
       << "xupsBatVoltage", "float" >>,
       << "xupsBatteryAbmStatus", "int" >>,
       << "xupsBypassFrequency", "float" >>,
       << "xupsBypassTable", "string" >>,
       << "xupsBypassVoltage", "float" >>,
       << "xupsEnvAmbientTemp", "float" >>,
       << "xupsInputCurrent", "float" >>,
       << "xupsInputFrequency", "float" >>,
       << "xupsInputTable", "string" >>,
       << "xupsInputVoltage", "float" >>,
       << "xupsInputWatts", "float" >>,
       << "xupsOutputCurrent", "float" >>,
       << "xupsOutputFrequency", "float" >>,
       << "xupsOutputLoad", "float" >>,
       << "xupsOutputTable", "string" >>,
       << "xupsOutputVoltage", "float" >>,
       << "xupsOutputWatts", "float" >> >>

\* RaritanItemId(item_id): the member with that value, or ValueError.
RaritanItemById(item_id) ==
    IF \E i \in 1..Len(RaritanItemId) : RaritanItemId[i].value = item_id
    THEN Ok(RaritanItemId[CHOOSE i \in 1..Len(RaritanItemId) :
                              RaritanItemId[i].value = item_id])
    ELSE Raised("ValueError")

\* TelemetryItemName(value).name: the first member with that value.
TelemetryItemNameOf(telemetry_item) ==
    LET hits == {i \in 1..Len(TelemetryItemName) :
                    TelemetryItemName[i][2] = telemetry_item}
    IN  IF hits = {} THEN Raised("ValueError")
        ELSE Ok(TelemetryItemName[CHOOSE i \in hits : \A j \in hits : i <= j][1])

\* TelemetryItemType[mib_name], or KeyError.
TelemetryItemTypeOf(mib_name) ==
    IF \E i \in 1..Len(TelemetryItemType) : TelemetryItemType[i][1] = mib_name
    THEN Ok(TelemetryItemType[CHOOSE i \in 1..Len(TelemetryItemType) :
                                  TelemetryItemType[i][1] = mib_name][2])
    ELSE Raised("KeyError")

\* --- what the client is given: the tree and the topics
\* The documents the client's MibTreeHolder reads.  The data directory is
\* not part of the sources; these documents declare the four device
\* branches and, for the three devices read item by item, the items of
\* the topic schemas below.
SnmpMibFiles ==
    << MibFile("eaton.mib",
          << Decl(MODULE_IDENTITY, "xupsMIB", "eaton", 1, "", NoIndex),
             Decl(OBJECT_IDENTIFIER, "eaton", "enterprises", 534, "", NoIndex),
             Decl(OBJECT_IDENTIFIER, "xupsInput", "xupsMIB", 3, "", NoIndex),
             Decl(OBJECT_TYPE, "xupsInputFrequency", "xupsInput", 1,
                  "The utility line frequency in tenths of Hz.", NoIndex),
             Decl(OBJECT_TYPE, "xupsInputTable", "xupsInput", 4,
                  "The Aggregate Object with number of entries.", NoIndex),
             Decl(OBJECT_TYPE, "xupsInputEntry", "xupsInputTable", 1,
                  "The input table entry.", "xupsInputPhase"),
             Decl(OBJECT_TYPE, "xupsInputVoltage", "xupsInputEntry", 2,
                  "The measured input voltage.", NoIndex) >>),
       MibFile("netbooter.mib",
          << Decl(OBJECT_IDENTIFIER, "synaccess", "enterprises", 21728, "", NoIndex),
             Decl(OBJECT_IDENTIFIER, "pduStatus", "synaccess", 3, "", NoIndex),
             Decl(OBJECT_TYPE, "outletStatus", "pduStatus", 1,
                  "The outlet status.", NoIndex) >>),
       MibFile("raritan.mib",
          << Decl(MODULE_IDENTITY, "raritan", "enterprises", 13742, "", NoIndex) >>),
       MibFile("schneider.mib",
          << Decl(OBJECT_IDENTIFIER, "schneiderElectric", "enterprises", 3833,
                  "", NoIndex),
             Decl(OBJECT_IDENTIFIER, "aeAccumulatedEnergy", "schneiderElectric", 1,
                  "", NoIndex),
             Decl(OBJECT_TYPE, "aeResetDateTime", "aeAccumulatedEnergy", 1,
                  "The date and time of the last reset.", NoIndex) >>) >>

\* self.mib_tree_holder.mib_tree
SnmpMibTree == RunDecls(MibState(_add_default_elements, EmptyDict, "building", {}),
                        DeclsOf(SnmpMibFiles), 1).tree

\* tel_<device_type>
TopicOf(dt) ==
    CASE dt = "netbooter" -> "tel_netbooter"
      [] dt = "raritan" -> "tel_raritan"
      [] dt = "schneiderPm5xxx" -> "tel_schneiderPm5xxx"
      [] dt = "xups" -> "tel_xups"
      [] OTHER -> "tel_pdu"

\* self.device_type = self.config.device_type: the constructor takes the
\* type as it is given (the enumeration of the config schema is checked
\* outside the class).  "pdu" stands for a type the tree has no node of.
ConfiguredDeviceTypes == Range(DeviceName) \cup {"pdu"}

\* The fields of the topics the client writes (topic_info.fields), each
\* with its count.  The schemas belong to the interface package; only
\* the fields the documents above declare items for are listed, and the
\* three generic ones.
Field(name, count) == [name |-> name, count |-> count]
GenericFields ==
    << Field("private_sndStamp", 1), Field("salIndex", 1),
       Field("systemDescription", 1), Field("sensorName", 1) >>
TopicFields(dt) ==
    CASE dt = "netbooter" -> GenericFields \o << Field("powerOutletStatus", 1) >>
      [] dt = "raritan" -> GenericFields
      [] dt = "schneiderPm5xxx" -> GenericFields \o << Field("resetDateTime", 1) >>
      [] dt = "xups" -> GenericFields \o << Field("inputFrequency", 1),
                                           Field("inputVoltage", 3) >>
      [] OTHER -> GenericFields

\* The field names that start with "private_" or "_".
PrivateFields == {"private_sndStamp"}

\* len(tel_temperature.DataType().temperatureItem)
TemperatureSchema == [temperatureItem |-> 16]

\* config.host
Host == << "l", "o", "c", "a", "l", "h", "o", "s", "t" >>

\* --- snmp_result: a dict, which keeps the order the keys were first set in
Lookup(d, k) == d[CHOOSE i \in 1..Len(d) : d[i].oid = k].val
Has(d, k) == \E i \in 1..Len(d) : d[i].oid = k
Store(d, k, v) ==
    IF Has(d, k)
    THEN [i \in 1..Len(d) |-> IF d[i].oid = k THEN [oid |-> k, val |-> v] ELSE d[i]]
    ELSE Append(d, [oid |-> k, val |-> v])

\* A response item of the walk.
SnmpItem(error_indication, error_status, var_binds) ==
    [error_indication |-> error_indication, error_status |-> error_status,
     var_binds |-> var_binds]
VarBind(oid, val) == [oid |-> oid, val |-> val]
Values(var_binds) == << SnmpItem(FALSE, FALSE, var_binds) >>

RECURSIVE StoreAll(_, _)
StoreAll(d, var_binds) ==
    IF var_binds = << >> THEN d
    ELSE StoreAll(Store(d, Head(var_binds).oid, Head(var_binds).val),
                  Tail(var_binds))

\* The loop over the response items: an error indication is skipped, an
\* error status raises.
\* (variant: an error indication raises as an error status does)
ItemAction_indicationRaises(item) ==
    IF item.error_indication \/ item.error_status THEN "raise" ELSE "store"

\* if error_indication: ... elif error_status: ... else: ...
ItemAction(item) ==
    IF item.error_indication THEN "skip"
    ELSE IF item.error_status THEN "raise"
    ELSE "store"

RECURSIVE WalkItems(_, _)
WalkItems(result, items) ==
    LET handle(item, action) ==
            CASE action = "skip" -> WalkItems(result, Tail(items))
              [] action = "raise" ->
                     [snmp_result |-> result, raised |-> "RuntimeError"]
              [] action = "store" ->
                     WalkItems(StoreAll(result, item.var_binds), Tail(items))
    IN  IF items = << >> THEN [snmp_result |-> result, raised |-> "-"]
        ELSE handle(Head(items), ItemAction(Head(items)))

\* execute_walk_cmd: reply[i] holds the items the device returns for
\* object_types[i].
RECURSIVE WalkRoots(_, _, _)
WalkRoots(result, reply, i) ==
    IF i > Len(reply) THEN [snmp_result |-> result, raised |-> "-"]
    ELSE LET w == WalkItems(result, reply[i])
         IN  IF w.raised # "-" THEN w ELSE WalkRoots(w.snmp_result, reply, i + 1)

execute_walk_cmd(c, device) ==
    LET reply == [i \in 1..Len(c.object_types) |-> device[c.object_types[i]]]
        w == WalkRoots(<< >>, reply, 1)
    IN  [c |-> [c EXCEPT !.snmp_result = w.snmp_result], raised |-> w.raised]

\* --- the decimal digits of a Raritan device
DigitsInt(n) == [isList |-> FALSE, n |-> n, items |-> << >>]
DigitsList(items) == [isList |-> TRUE, n |-> 0, items |-> items]

LastOf(oid) == oid[Len(oid)]

\* The state of a loop over snmp_result: the dict being filled and the
\* exception that ended the loop, if one did.
Step(d, raised) == [d |-> d, raised |-> raised]

\* decimal_digits.append(int(value)) on the list under key, made first
\* when the key is new.
AppendDigits(digits, key, raw) ==
    LET append(with, n) ==
            IF ~with[key].isList THEN Step(with, "AssertionError")
            ELSE IF n.raised # "-" THEN Step(with, n.raised)
            ELSE Step(DictSet(with, key,
                              DigitsList(Append(with[key].items, n.v))), "-")
    IN  append(IF key \in DOMAIN digits THEN digits
               ELSE DictSet(digits, key, DigitsList(<< >>)),
               int(raw))

_get_raritan_external_sensor_decimal_digits(c, digits, result, item_id) ==
    IF item_id \notin 1..Len(RARITAN_EXT_SENS_DEC_DIGITS_IDS)
    THEN Step(digits, "KeyError")
    ELSE AppendDigits(digits, RARITAN_EXT_SENS_DEC_DIGITS_IDS[item_id],
                      Lookup(c.snmp_result, result))

_get_raritan_misc_decimal_digits(c, digits, result, item_id) ==
    LET inlet(item, n) ==
            IF n.raised # "-" THEN Step(digits, n.raised)
            ELSE Step(DictSet(digits, item.v.inlet, DigitsInt(n.v)), "-")
        misc(item) ==
            IF item.raised # "-" THEN Step(digits, item.raised)
            ELSE IF startswith(result, RaritanOid.InletDecimalDigits)
            THEN inlet(item, int(Lookup(c.snmp_result, result)))
            ELSE IF startswith(result, RaritanOid.OutletDecimalDigits)
            THEN AppendDigits(digits, item.v.outlet, Lookup(c.snmp_result, result))
            ELSE Step(digits, "-")
    IN  misc(RaritanItemById(item_id))

\* The loop of _get_raritan_decimal_digits over snmp_result, from entry i.
RECURSIVE DecimalDigitsLoop(_, _, _)
DecimalDigitsLoop(c, digits, i) ==
    LET snmp_result_oid == c.snmp_result[i].oid
        item_id == LastOf(snmp_result_oid)
        continue(s) ==
            IF s.raised # "-" THEN s ELSE DecimalDigitsLoop(c, s.d, i + 1)
    IN  IF i > Len(c.snmp_result) THEN Step(digits, "-")
        ELSE continue(
                 IF startswith(snmp_result_oid, RaritanOid.ExternalSensorDecimalDigits)
                 THEN _get_raritan_external_sensor_decimal_digits(
                          c, digits, snmp_result_oid, item_id)
                 ELSE _get_raritan_misc_decimal_digits(
                          c, digits, snmp_result_oid, item_id))

\* The outcome of a client method: the client after it, the exception
\* raised, and the set_write calls it made, in order.
Outcome(c, raised, writes) == [c |-> c, raised |-> raised, writes |-> writes]
Write(topic, data) == [topic |-> topic, data |-> data]

_get_raritan_decimal_digits(c, device) ==
    LET looped(w, s) ==
            Outcome([w.c EXCEPT !.raritan_decimal_digits = s.d], s.raised, << >>)
        walked(w) ==
            IF w.raised # "-" THEN Outcome(w.c, w.raised, << >>)
            ELSE looped(w, DecimalDigitsLoop(w.c, w.c.raritan_decimal_digits, 1))
    IN  walked(execute_walk_cmd(
                   [c EXCEPT !.object_types = RaritanDecimalDigitsOids], device))

setup_reading(c, device) ==
    LET described(c2) ==
            IF c.device_type = "raritan"
            THEN _get_raritan_decimal_digits(c2, device)
            ELSE Outcome(c2, "-", << >>)
        found(w, sys_descr) ==
            IF w.raised # "-" THEN Outcome(w.c, w.raised, << >>)
            ELSE described(
                     IF Has(w.c.snmp_result, sys_descr)
                     THEN [w.c EXCEPT !.system_description =
                                          Lookup(w.c.snmp_result, sys_descr)]
                     ELSE w.c)
    IN  found(execute_walk_cmd(c, device),
              Append(SnmpMibTree["sysDescr"].oid, 0))

\* --- a read cycle of a Raritan device
\* list[i] with Python's indexing: 0-based, negative from the end.
PyIndexOk(list, i) == 0 - Len(list) <= i /\ i < Len(list)
PyIndex(list, i) == IF i >= 0 THEN list[i + 1] ELSE list[Len(list) + i + 1]
PySetItem(list, i, v) == [list EXCEPT ![i + 1] = v]

\* int(raw) / 10**decimal_digits
Scaled(n, decimal_digits) == SFloat(n, Pow10(decimal_digits))

\* The loop of _process_raritan_inlet_telemetry over snmp_result, from i.
RECURSIVE InletLoop(_, _, _)
InletLoop(c, telemetry_dict, i) ==
    LET snmp_result_oid == c.snmp_result[i].oid
        scale(raritan_item, decimal_digits, n) ==
            IF decimal_digits.isList THEN Step(telemetry_dict, "AssertionError")
            ELSE IF n.raised # "-" THEN Step(telemetry_dict, n.raised)
            ELSE InletLoop(c, DictSet(telemetry_dict, raritan_item,
                                      Scaled(n.v, decimal_digits.n)),
                           i + 1)
        named(raritan_item) ==
            IF raritan_item \notin DOMAIN c.raritan_decimal_digits
            THEN Step(telemetry_dict, "KeyError")
            ELSE scale(raritan_item, c.raritan_decimal_digits[raritan_item],
                       int(c.snmp_result[i].val))
        inlet(item) ==
            IF item.raised # "-" THEN Step(telemetry_dict, item.raised)
            ELSE named(item.v.inlet)
    IN  IF i > Len(c.snmp_result) THEN Step(telemetry_dict, "-")
        ELSE IF ~startswith(snmp_result_oid, RaritanOid.InletTelemetry)
        THEN InletLoop(c, telemetry_dict, i + 1)
        ELSE inlet(RaritanItemById(LastOf(snmp_result_oid)))

_process_raritan_inlet_telemetry(c, telemetry_dict) == InletLoop(c, telemetry_dict, 1)

\* The loop of _process_raritan_outlet_telemetry over snmp_result, from i.
RECURSIVE OutletLoop(_, _, _)
OutletLoop(c, telemetry_dict, i) ==
    LET snmp_result_oid == c.snmp_result[i].oid
        item_index == snmp_result_oid[Len(snmp_result_oid) - 1]
        append(raritan_item, decimal_digits, with, n) ==
            IF with[raritan_item].t # "list" THEN Step(with, "AssertionError")
            ELSE IF n.raised # "-" THEN Step(with, n.raised)
            ELSE OutletLoop(c,
                     DictSet(with, raritan_item,
                         SList(Append(with[raritan_item].items,
                                      Scaled(n.v, decimal_digits)))),
                     i + 1)
        scale(raritan_item, all_decimal_digits) ==
            IF ~all_decimal_digits.isList
            THEN Step(telemetry_dict, "AssertionError")
            ELSE IF ~PyIndexOk(all_decimal_digits.items, item_index - 1)
            THEN Step(telemetry_dict, "IndexError")
            ELSE append(raritan_item,
                        PyIndex(all_decimal_digits.items, item_index - 1),
                        IF raritan_item \in DOMAIN telemetry_dict
                        THEN telemetry_dict
                        ELSE DictSet(telemetry_dict, raritan_item, SList(<< >>)),
                        int(c.snmp_result[i].val))
        named(raritan_item) ==
            IF raritan_item \notin DOMAIN c.raritan_decimal_digits
            THEN Step(telemetry_dict, "KeyError")
            ELSE scale(raritan_item, c.raritan_decimal_digits[raritan_item])
        outlet(item) ==
            IF item.raised # "-" THEN Step(telemetry_dict, item.raised)
            ELSE named(item.v.outlet)
    IN  IF i > Len(c.snmp_result) THEN Step(telemetry_dict, "-")
        ELSE IF ~startswith(snmp_result_oid, RaritanOid.OutletTelemetry)
        THEN OutletLoop(c, telemetry_dict, i + 1)
        ELSE outlet(RaritanItemById(LastOf(snmp_result_oid)))

_process_raritan_outlet_telemetry(c, telemetry_dict) == OutletLoop(c, telemetry_dict, 1)

\* The loop of _process_raritan_external_sensor_telemetry over
\* snmp_result, from i.  x holds temp_index, temperatures, rel_hum_idex
\* and relative_humidities.
RECURSIVE ExternalSensorLoop(_, _, _)
ExternalSensorLoop(c, x, i) ==
    LET snmp_result_oid == c.snmp_result[i].oid
        item_id == LastOf(snmp_result_oid)
        temperature(decimal_digits, n) ==
            IF n.raised # "-" THEN Step(x, n.raised)
            ELSE IF ~PyIndexOk(decimal_digits.items, x.temp_index)
                    \/ ~PyIndexOk(x.temperatures, x.temp_index)
            THEN Step(x, "IndexError")
            ELSE ExternalSensorLoop(c,
                     [x EXCEPT !.temperatures =
                          PySetItem(@, x.temp_index,
                              Scaled(n.v, PyIndex(decimal_digits.items,
                                                  x.temp_index))),
                               !.temp_index = @ + 1],
                     i + 1)
        humidity(decimal_digits, n) ==
            IF n.raised # "-" THEN Step(x, n.raised)
            ELSE IF ~PyIndexOk(decimal_digits.items, x.rel_hum_idex)
                    \/ ~PyIndexOk(x.relative_humidities, x.rel_hum_idex)
            THEN Step(x, "IndexError")
            ELSE ExternalSensorLoop(c,
                     [x EXCEPT !.relative_humidities =
                          PySetItem(@, x.rel_hum_idex,
                              Scaled(n.v, PyIndex(decimal_digits.items,
                                                  x.rel_hum_idex))),
                               !.rel_hum_idex = @ + 1],
                     i + 1)
        sensor(item_name, decimal_digits) ==
            IF ~decimal_digits.isList THEN Step(x, "AssertionError")
            ELSE IF item_name = "temperature"
            THEN temperature(decimal_digits, int(c.snmp_result[i].val))
            ELSE IF item_name = "humidity"
            THEN humidity(decimal_digits, int(c.snmp_result[i].val))
            ELSE ExternalSensorLoop(c, x, i + 1)
        named(item_name) ==
            IF item_name \notin DOMAIN c.raritan_decimal_digits
            THEN Step(x, "KeyError")
            ELSE sensor(item_name, c.raritan_decimal_digits[item_name])
    IN  IF i > Len(c.snmp_result) THEN Step(x, "-")
        ELSE IF ~startswith(snmp_result_oid, RaritanOid.ExternalSensorTelemetry)
        THEN ExternalSensorLoop(c, x, i + 1)
        ELSE IF item_id \notin 1..Len(RARITAN_EXT_SENS_DEC_DIGITS_IDS)
        THEN Step(x, "KeyError")
        ELSE named(RARITAN_EXT_SENS_DEC_DIGITS_IDS[item_id])

RECURSIVE Repeat(_, _)
Repeat(v, n) == IF n <= 0 THEN << >> ELSE << v >> \o Repeat(v, n - 1)

\* "relativeHumidity" and "temperature1, temperature2"
RelativeHumidityText ==
    << "r", "e", "l", "a", "t", "i", "v", "e", "H", "u", "m", "i", "d", "i", "t", "y" >>
TemperatureLocation ==
    << "t", "e", "m", "p", "e", "r", "a", "t", "u", "r", "e", "1", ",", " ",
       "t", "e", "m", "p", "e", "r", "a", "t", "u", "r", "e", "2" >>

\* (variant: no temperature record is written)
TemperatureWrites_none(temperatures) == << >>

\* (variant: the two temperatures are written without the padding)
TemperatureWrites_unpadded(temperatures) ==
    << Write("tel_temperature",
             [sensorName |-> SStr(Host),
              temperatureItem |-> SList(temperatures),
              numChannels |-> SInt(2),
              location |-> SStr(TemperatureLocation)]) >>

\* The temperature record: the two temperatures padded with NaN to the
\* length of the topic's array; the timestamp is left out.
TemperatureWrites(temperatures) ==
    << Write("tel_temperature",
             [sensorName |-> SStr(Host),
              temperatureItem |->
                  SList(temperatures
                        \o Repeat(SNaN, TemperatureSchema.temperatureItem - 2)),
              numChannels |-> SInt(2),
              location |-> SStr(TemperatureLocation)]) >>

\* (variant: only the first relative humidity is written)
RelativeHumidityWrites_firstOnly(relative_humidities) ==
    << Write("tel_relativeHumidity",
             [sensorName |-> SStr(Host),
              relativeHumidityItem |-> relative_humidities[1],
              location |-> SStr(RelativeHumidityText \o str(0))]) >>

\* The relativeHumidity records, one for each (index, relative_humidity)
\* of enumerate(relative_humidities); the timestamp is left out.
RelativeHumidityWrites(relative_humidities) ==
    [index \in 1..Len(relative_humidities) |->
        Write("tel_relativeHumidity",
              [sensorName |-> SStr(Host),
               relativeHumidityItem |-> relative_humidities[index],
               location |-> SStr(RelativeHumidityText \o str(index - 1))])]

\* The writes of _process_raritan_external_sensor_telemetry, or the
\* exception its loop raised.
_process_raritan_external_sensor_telemetry(c) ==
    LET publish(s) ==
            IF s.raised # "-" THEN [writes |-> << >>, raised |-> s.raised]
            ELSE [writes |-> TemperatureWrites(s.d.temperatures)
                             \o RelativeHumidityWrites(s.d.relative_humidities),
                  raised |-> "-"]
    IN  publish(ExternalSensorLoop(c,
                    [temp_index |-> 0, temperatures |-> Repeat(SNaN, 2),
                     rel_hum_idex |-> 0, relative_humidities |-> Repeat(SNaN, 2)],
                    1))

\* process_telemetry_item_for_raritan_device: the dict filled, the
\* writes made and the exception raised.
process_telemetry_item_for_raritan_device(c, telemetry_dict) ==
    LET external_sensor(outlet, external) ==
            [d |-> outlet.d, writes |-> external.writes, raised |-> external.raised]
        outlets(outlet) ==
            IF outlet.raised # "-"
            THEN [d |-> outlet.d, writes |-> << >>, raised |-> outlet.raised]
            ELSE external_sensor(outlet,
                                 _process_raritan_external_sensor_telemetry(c))
        inlets(inlet) ==
            IF inlet.raised # "-"
            THEN [d |-> inlet.d, writes |-> << >>, raised |-> inlet.raised]
            ELSE outlets(_process_raritan_outlet_telemetry(c, inlet.d))
    IN  inlets(_process_raritan_inlet_telemetry(c, telemetry_dict))

\* --- a read cycle of the other devices
\* (variant: an identifier that is not in the result reads as the int 0)
AbsentValue_zero(telemetry_type) == SInt(0)

\* The value of an item whose identifier is not in snmp_result.
AbsentValue(telemetry_type) ==
    CASE telemetry_type = "int" -> SInt(0)
      [] telemetry_type = "float" -> SNaN
      [] telemetry_type = "string" -> SStr(<< >>)

get_telemetry_item_value(c, telemetry_item, mib_name, mib_oid) ==
    LET present == Has(c.snmp_result, mib_oid)
        raw == Lookup(c.snmp_result, mib_oid)
        number(n) == IF n.raised # "-" THEN n ELSE Ok(SInt(n.v))
        typed(telemetry_type) ==
            IF telemetry_type.raised # "-" THEN telemetry_type
            ELSE CASE telemetry_type.v = "int" ->
                          IF present THEN number(int(raw))
                          ELSE Ok(AbsentValue("int"))
                   [] telemetry_type.v = "float" ->
                          IF present THEN _extract_float_from_string(raw)
                          ELSE Ok(AbsentValue("float"))
                   [] telemetry_type.v = "string" ->
                          IF present THEN Ok(SStr(raw))
                          ELSE Ok(AbsentValue("string"))
                   [] OTHER ->
                          IF present THEN Ok(SStr(raw)) ELSE Raised("KeyError")
    IN  typed(TelemetryItemTypeOf(mib_name))

\* (variant: no field is taken for a multi-valued one)
_is_single_or_multiple_never(telemetry_item, fields) == FALSE

\* field_info.count > 1
_is_single_or_multiple(telemetry_item, fields) ==
    LET i == CHOOSE i \in 1..Len(fields) : fields[i].name = telemetry_item
    IN  fields[i].count > 1

\* The values of the snmp_result entries from i on that start with mib_oid.
RECURSIVE ListValues(_, _, _, _, _)
ListValues(c, telemetry_item, mib_name, mib_oid, i) ==
    LET snmp_result_oid == c.snmp_result[i].oid
        append(v, rest) ==
            IF v.raised # "-" THEN v
            ELSE IF rest.raised # "-" THEN rest
            ELSE Ok(<< v.v >> \o rest.v)
    IN  IF i > Len(c.snmp_result) THEN Ok(<< >>)
        ELSE IF ~startswith(snmp_result_oid, mib_oid)
        THEN ListValues(c, telemetry_item, mib_name, mib_oid, i + 1)
        ELSE append(get_telemetry_item_value(c, telemetry_item, mib_name,
                                             snmp_result_oid),
                    ListValues(c, telemetry_item, mib_name, mib_oid, i + 1))

\* (variant: the value is left as it was read)
DividedByTen_undivided(v) == Ok(v)

\* snmp_value / 10.0
DividedByTen(v) ==
    CASE v.t = "nan" -> Ok(v)
      [] v.t \in {"int", "float"} -> Ok(SFloat(v.num, v.den * 10))
      [] OTHER -> Raised("TypeError")

process_telemetry_item_for_misc_device(c, telemetry_item, telemetry_dict, fields) ==
    LET store(snmp_value) ==
            IF snmp_value.raised # "-" THEN Step(telemetry_dict, snmp_value.raised)
            ELSE Step(DictSet(telemetry_dict, telemetry_item, snmp_value.v), "-")
        listed(snmp_value) ==
            IF snmp_value.raised # "-" THEN snmp_value
            ELSE Ok(SList(snmp_value.v))
        frequency(mib_oid, snmp_value) ==
            IF snmp_value.raised # "-" THEN snmp_value
            ELSE IF mib_oid \in FREQUENCY_OID_LIST THEN DividedByTen(snmp_value.v)
            ELSE snmp_value
        single(mib_name, mib_oid) ==
            store(frequency(mib_oid,
                      get_telemetry_item_value(c, telemetry_item, mib_name,
                                               mib_oid)))
        item(mib_name, node) ==
            IF ~node.parent.exists THEN Step(telemetry_dict, "AssertionError")
            ELSE IF node.parent.index # NoIndex
                    /\ _is_single_or_multiple(telemetry_item, fields)
            THEN store(listed(ListValues(c, telemetry_item, mib_name, node.oid, 1)))
            ELSE single(mib_name,
                        IF Has(c.snmp_result, Append(node.oid, 0))
                        THEN Append(node.oid, 0) ELSE Append(node.oid, 1))
        named(mib_name) ==
            IF mib_name \notin DOMAIN SnmpMibTree
            THEN Step(telemetry_dict, "KeyError")
            ELSE item(mib_name, SnmpMibTree[mib_name])
        member(name) ==
            IF name.raised # "-" THEN Step(telemetry_dict, name.raised)
            ELSE named(name.v)
    IN  member(TelemetryItemNameOf(telemetry_item))

\* telemetry_items: the fields that are not generic ones.
RECURSIVE TelemetryItems(_)
TelemetryItems(fields) ==
    IF fields = << >> THEN << >>
    ELSE LET i == Head(fields).name
         IN  IF i \in PrivateFields
                \/ i \in {"salIndex", "systemDescription", "sensorName"}
             THEN TelemetryItems(Tail(fields))
             ELSE << i >> \o TelemetryItems(Tail(fields))

RECURSIVE MiscLoop(_, _, _, _)
MiscLoop(c, telemetry_items, telemetry_dict, fields) ==
    LET continue(s) ==
            IF s.raised # "-" THEN s
            ELSE MiscLoop(c, Tail(telemetry_items), s.d, fields)
    IN  IF telemetry_items = << >> THEN Step(telemetry_dict, "-")
        ELSE continue(process_telemetry_item_for_misc_device(
                          c, Head(telemetry_items), telemetry_dict, fields))

\* (variant: the cycle ends without writing the device's topic)
telemetry_write_skipped(telemetry_topic, telemetry_dict) == << >>

\* await telemetry_topic.set_write(**telemetry_dict)
telemetry_write(telemetry_topic, telemetry_dict) ==
    << Write(telemetry_topic, telemetry_dict) >>

\* raise ValueError(f"Unknown device type {self.device_type!r}. Ignoring.")
\* (variant: the type is ignored and the call returns)
UnknownDeviceType_ignored(c) == Outcome(c, "-", << >>)

UnknownDeviceType(c) == Outcome(c, "ValueError", << >>)

read_data(c, device) ==
    LET telemetry_topic == TopicOf(c.device_type)
        telemetry_dict == [systemDescription |-> SStr(c.system_description),
                           sensorName |-> SStr(Host)]
        fields == TopicFields(c.device_type)
        \* s: the dict filled and the exception raised while filling it
        processed(w, s, writes) ==
            IF s.raised # "-" THEN Outcome(w.c, s.raised, writes)
            ELSE Outcome(w.c, "-",
                         writes \o telemetry_write(telemetry_topic, s.d))
        raritan(w, s) == processed(w, s, s.writes)
        walked(w) ==
            IF w.raised # "-" THEN Outcome(w.c, w.raised, << >>)
            ELSE IF c.device_type = "raritan"
            THEN raritan(w, process_telemetry_item_for_raritan_device(
                                w.c, telemetry_dict))
            ELSE processed(w, MiscLoop(w.c, TelemetryItems(fields),
                                       telemetry_dict, fields),
                           << >>)
    IN  IF c.device_type \notin DOMAIN SnmpMibTree
        THEN UnknownDeviceType(c)
        ELSE walked(execute_walk_cmd(
                        [c EXCEPT !.object_types =
                             IF c.device_type = "raritan" THEN RaritanTelemetryOids
                             ELSE << SnmpMibTree[c.device_type].oid >>],
                        device))

\* --- the devices polled
SIMULATED_SYS_DESCR ==
    << "S", "n", "m", "p", "S", "e", "r", "v", "e", "r",
       "S", "i", "m", "u", "l", "a", "t", "o", "r" >>
NoSystemDescription ==
    << "N", "o", " ", "s", "y", "s", "t", "e", "m", " ", "d", "e", "s", "c", "r",
       "i", "p", "t", "i", "o", "n", " ", "s", "e", "t", "." >>

\* One value in each response item, as the devices send them.
RECURSIVE OneEach(_)
OneEach(var_binds) ==
    IF var_binds = << >> THEN << >>
    ELSE Values(<< Head(var_binds) >>) \o OneEach(Tail(var_binds))

TransportError == SnmpItem(TRUE, FALSE, << >>)
ProtocolError == SnmpItem(FALSE, TRUE, << >>)

SystemOid == SnmpMibTree["system"].oid
SysDescrReply ==
    OneEach(<< VarBind(Append(SnmpMibTree["sysDescr"].oid, 0), SIMULATED_SYS_DESCR) >>)

\* The outlet rows a Raritan unit answers with.
OutletRows(anomaly) ==
    IF anomaly = "second_outlet_only" THEN << 2 >> ELSE [r \in 1..MaxOutlets |-> r]
\* The digit count and the raw rmsCurrent of outlet r: other in row 2 than
\* in row 1.
OutletDigits(r) == IF r = 2 THEN 2 ELSE 3
OutletRaw(r) == 125 + r

\* A Raritan unit with one inlet, MaxOutlets outlets and the external
\* sensors 1 to 5 (two temperatures, two humidities, one contact).
RaritanReply(root, anomaly) ==
    LET row(r, item) == root \o << 1, r, item >>
        sensor(id) == root \o << 1, id >>
        outlets(rows, item, raw(_)) ==
            [k \in 1..Len(rows) |-> VarBind(row(rows[k], item), str(raw(rows[k])))]
    IN  CASE root = RaritanOid.InletDecimalDigits ->
                 OneEach(<< VarBind(row(1, 1), str(3)), VarBind(row(1, 4), str(0)) >>)
          [] root = RaritanOid.OutletDecimalDigits ->
                 IF anomaly = "no_outlet_digits" THEN << >>
                 ELSE OneEach(outlets(OutletRows(anomaly), 1, OutletDigits))
          [] root = RaritanOid.ExternalSensorDecimalDigits ->
                 OneEach(<< VarBind(sensor(1), str(1)), VarBind(sensor(2), str(0)),
                            VarBind(sensor(3), str(1)), VarBind(sensor(4), str(0)),
                            VarBind(sensor(5), str(0)) >>)
          [] root = RaritanOid.InletTelemetry ->
                 OneEach(<< VarBind(row(1, 1),
                                    IF anomaly = "text_value" THEN << "n", "/", "a" >>
                                    ELSE str(3800)),
                            VarBind(row(1, 4), str(400)) >>)
          [] root = RaritanOid.OutletTelemetry ->
                 IF anomaly = "protocol_error_late" THEN << ProtocolError >>
                 ELSE OneEach(outlets(OutletRows(anomaly), 1, OutletRaw))
          [] root = RaritanOid.ExternalSensorTelemetry ->
                 CASE anomaly = "no_sensors" -> << >>
                   [] anomaly = "one_sensor" -> OneEach(<< VarBind(sensor(2), str(45)) >>)
                   [] anomaly = "third_temperature" ->
                          OneEach(<< VarBind(sensor(1), str(215)),
                                     VarBind(sensor(3), str(220)),
                                     VarBind(root \o << 2, 1 >>, str(230)) >>)
                   [] anomaly = "unknown_sensor" ->
                          OneEach(<< VarBind(sensor(1), str(215)),
                                     VarBind(sensor(8), str(1)) >>)
                   [] OTHER ->
                          OneEach(<< VarBind(sensor(1), str(215)),
                                     VarBind(sensor(2), str(45)),
                                     VarBind(sensor(3), str(220)),
                                     VarBind(sensor(4), str(50)),
                                     VarBind(sensor(5), str(1)) >>)
          [] OTHER -> << >>

\* The other devices: the items of their branch.
MiscReply(dt, anomaly) ==
    LET oid(name) == SnmpMibTree[name].oid
        number(raw) == IF anomaly = "text_value" THEN << "n", "/", "a" >> ELSE raw
        \* the same item once more in row 1, with another value
        second(name, raw) ==
            IF anomaly = "both_rows"
            THEN << VarBind(Append(oid(name), 1), raw) >> ELSE << >>
    IN  CASE anomaly = "no_values" -> << >>
          [] dt = "xups" ->
                 OneEach(<< VarBind(Append(oid("xupsInputFrequency"),
                                           IF anomaly = "row_one" THEN 1 ELSE 0),
                                    number(str(500))) >>
                         \o second("xupsInputFrequency", str(600))
                         \o
                         << VarBind(Append(oid("xupsInputVoltage"), 1), str(230)),
                            VarBind(Append(oid("xupsInputVoltage"), 2), str(231)),
                            VarBind(Append(oid("xupsInputVoltage"), 3),
                                    << "2", "2", "9", ".", "5", " ", "V" >>) >>
                         \o
                         \* a column 20 of xupsInputEntry, next to column 2
                         (IF anomaly = "sibling_column"
                          THEN << VarBind(oid("xupsInputEntry") \o << 20, 1 >>,
                                          str(7)) >>
                          ELSE << >>))
          [] dt = "netbooter" ->
                 OneEach(<< VarBind(Append(oid("outletStatus"), 0), number(str(1))) >>
                         \o second("outletStatus", str(0)))
          [] dt = "schneiderPm5xxx" ->
                 OneEach(<< VarBind(Append(oid("aeResetDateTime"), 0),
                                    << "2", "0", "2", "4", "-", "0", "1", "-", "0", "1" >>) >>
                         \o second("aeResetDateTime", << "n", "/", "a" >>))

SnmpRoots ==
    {SystemOid} \cup Range(RaritanDecimalDigitsOids) \cup Range(RaritanTelemetryOids)
        \cup {SnmpMibTree[DeviceName[i]].oid : i \in 1..Len(DeviceName)}

SnmpAnomalies(dt) ==
    {"none", "no_sys_descr", "transport_error", "protocol_error", "text_value"}
        \cup (IF dt = "raritan"
              THEN {"no_outlet_digits", "second_outlet_only",
                    "protocol_error_late", "no_sensors",
                    "one_sensor", "third_temperature", "unknown_sensor"}
              ELSE IF dt \in DOMAIN SnmpMibTree
              THEN {"no_values", "row_one", "both_rows"}
                       \cup (IF dt = "xups" THEN {"sibling_column"} ELSE {})
              ELSE {})

\* What a device of type dt answers to a walk of each root.
SnmpDevice(dt, anomaly) ==
    [root \in SnmpRoots |->
        LET values == IF root = SystemOid
                      THEN (IF anomaly = "no_sys_descr" THEN << >> ELSE SysDescrReply)
                      ELSE IF dt = "raritan" THEN RaritanReply(root, anomaly)
                      ELSE IF dt \in DOMAIN SnmpMibTree /\ root = SnmpMibTree[dt].oid
                      THEN MiscReply(dt, anomaly)
                      ELSE << >>
        IN  CASE anomaly = "transport_error" -> << TransportError >> \o values
              [] anomaly = "protocol_error" -> << ProtocolError >>
              [] OTHER -> values]

\* --- the client over time
SnmpTopics(dt) == {TopicOf(dt), "tel_temperature", "tel_relativeHumidity"}

SnmpClient ==
    [device_type |-> device_type, snmp_result |-> snmp_result,
     system_description |-> system_description,
     raritan_decimal_digits |-> raritan_decimal_digits,
     object_types |-> object_types]

NoSnmpCall == [op |-> "-", outcome |-> "-", anomaly |-> "-", writes_before |-> << >>]

SnmpIdle ==
    /\ device_type = "-" /\ snmp_result = << >> /\ system_description = << >>
    /\ raritan_decimal_digits = EmptyDict /\ object_types = << >>
    /\ snmp_calls = << >> /\ snmp_last = NoSnmpCall

\* The client as its constructor leaves it.
SnmpInit ==
    /\ device_type \in ConfiguredDeviceTypes
    /\ object_types = << SystemOid >>
    /\ snmp_result = << >>
    /\ system_description = NoSystemDescription
    /\ raritan_decimal_digits = EmptyDict
    /\ snmp_calls = << >>
    /\ snmp_last = NoSnmpCall
    /\ topics = [t \in SnmpTopics(device_type) |-> << >>]

SnmpFrame == UNCHANGED << modbusVars, valueVars, mibVars, extractVars >>

RECURSIVE Published(_, _)
Published(tp, writes) ==
    IF writes = << >> THEN tp
    ELSE Published([tp EXCEPT ![Head(writes).topic] = Append(@, Head(writes).data)],
                   Tail(writes))

Count(op) == Cardinality({i \in 1..Len(snmp_calls) : snmp_calls[i] = op})

SnmpCommit(op, anomaly, o) ==
    /\ snmp_result' = o.c.snmp_result
    /\ system_description' = o.c.system_description
    /\ raritan_decimal_digits' = o.c.raritan_decimal_digits
    /\ object_types' = o.c.object_types
    /\ topics' = Published(topics, o.writes)
    /\ snmp_calls' = Append(snmp_calls, op)
    /\ snmp_last' = [op |-> op,
                     outcome |-> IF o.raised = "-" THEN "ok" ELSE o.raised,
                     anomaly |-> anomaly,
                     writes_before |-> [t \in DOMAIN topics |-> Len(topics[t])]]
    /\ UNCHANGED device_type
    /\ SnmpFrame

SetupReading ==
    /\ device_type \in ConfiguredDeviceTypes
    /\ Count("setup_reading") < MaxSetups
    /\ \E anomaly \in SnmpAnomalies(device_type) :
          SnmpCommit("setup_reading", anomaly,
                     setup_reading(SnmpClient, SnmpDevice(device_type, anomaly)))

SnmpReadData ==
    /\ device_type \in ConfiguredDeviceTypes
    /\ Count("read_data") < MaxCycles
    \* (a client of a type without node walks nothing: no answer matters)
    /\ \E anomaly \in (IF device_type \in DOMAIN SnmpMibTree
                       THEN SnmpAnomalies(device_type) ELSE {"none"}) :
          SnmpCommit("read_data", anomaly,
                     read_data(SnmpClient, SnmpDevice(device_type, anomaly)))

SnmpNext == SetupReading \/ SnmpReadData


SpecModbusInit == ModbusInit /\ ValueIdle /\ MibIdle /\ SnmpIdle /\ ExtractIdle
SpecModbus == SpecModbusInit /\ [][ModbusNext]_vars

SpecValueInit == ValueInit /\ ModbusIdle /\ MibIdle /\ SnmpIdle /\ ExtractIdle
SpecValue == SpecValueInit /\ [][ValueNext]_vars

SpecMibInit == MibInit /\ ModbusIdle /\ ValueIdle /\ SnmpIdle /\ ExtractIdle
SpecMib == SpecMibInit /\ [][MibNext]_vars

SpecSnmpInit == SnmpInit /\ ModbusIdle /\ ValueIdle /\ MibIdle /\ ExtractIdle
SpecSnmp == SpecSnmpInit /\ [][SnmpNext]_vars

SpecExtractInit == ExtractInit /\ ModbusIdle /\ ValueIdle /\ MibIdle /\ SnmpIdle
SpecExtract == SpecExtractInit /\ [][ExtractNext]_vars

\* The Modbus poll engine on a connector that holds a simulator.
SpecSimulatedInit == SimulatedInit /\ ValueIdle /\ MibIdle /\ SnmpIdle /\ ExtractIdle
SpecSimulated == SpecSimulatedInit /\ [][ModbusNext]_vars

\* Either poll engine: a Modbus data client or an SNMP data client.
SpecPollInit == SpecModbusInit \/ SpecSnmpInit
PollNext == ModbusNext \/ SnmpNext
SpecPoll == SpecPollInit /\ [][PollNext]_vars


-----------------------------------------------------------------------------
(* Claims about the Modbus poll engine (SpecModbus, SpecValue).            *)

PrivateReads == {"process_telemetry", "_read_discrete_inputs", "_read_input_registers"}

WasConnected(call) == call.entry_client.exists /\ call.entry_client.connected

\* C4: when the AGC150 connector is not connected, process_telemetry,
\* _read_discrete_inputs and _read_input_registers each raise RuntimeError
\* at once: no read is issued to the client and nothing is published on
\* tel_agcGenset150.
C4_DisconnectedReadsRaise ==
    (last_call.op \in PrivateReads /\ ~WasConnected(last_call))
        => /\ last_call.outcome = "RuntimeError"
           /\ client_reads = << >>
           /\ Len(topics[AgcTopic]) = last_call.writes_before

\* A poll is attempted after a published cycle and a disconnect.
C4_Witness ==
    /\ last_call.op = "process_telemetry"
    /\ ~WasConnected(last_call)
    /\ last_call.outcome = "RuntimeError"
    /\ Len(topics[AgcTopic]) = 1

\* C5: a register word v in 0..65535 decodes to the 16 bit two's complement
\* value of v (v below 32768, v - 65536 from 32768 on) divided by 10^s for
\* the field's decimal factor s, and to that integer itself when s = 0;
\* 32767 stays 32767 and 32768 becomes -32768.  Booleans pass unchanged.
C5_SignedDecimalDecoding ==
    \A f \in DOMAIN mv_results :
        LET r == mv_results[f]
            v == mv_value.num
        IN  IF mv_value.t = "bool" THEN r = mv_value
            ELSE /\ r.num \in -32768..32767
                 /\ (r.num - v) % 65536 = 0
                 /\ (v = 32767 => r.num = 32767)
                 /\ (v = 32768 => r.num = -32768)
                 /\ r.den = Pow10(DecimalFactorOf[f])
                 /\ r.t = (IF DecimalFactorOf[f] = 0 THEN "int" ELSE "float")

\* 32768 decoded for a scale-0 field and for a scale-2 field.
C5_Witness ==
    /\ mv_value = IntVal(32768)
    /\ mv_fields = RegisterFieldNames
    /\ DOMAIN mv_results = RegisterFieldNames
    /\ mv_results["applicationVersion"] = IntVal(-32768)
    /\ mv_results["generatorFrequencyL1"] = FloatVal(-32768, 100)

\* C6: disconnect never raises, whatever the state it is called in, and
\* when it has returned the connector's `connected` property is false.
C6_DisconnectSafe ==
    last_call.op = "disconnect"
        => /\ last_call.outcome = "ok"
           /\ ~(client.exists /\ client.connected)
           /\ ~data_client_connected

\* disconnect called on a connected connector.
C6_Witness ==
    /\ last_call.op = "disconnect"
    /\ WasConnected(last_call)
    /\ ~client.exists

\* C7 (as claimed): after ModbusDataClient.connect() has returned without
\* raising, the connector is connected.
C7_ConnectedAfterConnect ==
    (last_call.op = "connect" /\ last_call.outcome = "ok")
        => (client.exists /\ client.connected)

-----------------------------------------------------------------------------
(* Claims about the MIB tree builder (SpecMib).                            *)

\* The declared name as the tree keys it.
DeclaredName(d) ==
    IF d.kind = OBJECT_TYPE THEN d.name ELSE _get_name_replacement(d.name)

\* The parent a module was put on hold for is declared further on.
DeclaredLater(m) ==
    LET decls == DeclsOf(mib_files)
    IN  \E j \in (m.at + 1)..Len(decls) : DeclaredName(decls[j]) = m.parent

\* C8 (as claimed): when the construction has ended over documents that
\* declare later the parent of every module put on hold, pending_modules is
\* empty and every such module is in the tree under its declared parent,
\* with the parent's oid followed by its declared number; this also when
\* two modules were on hold for one parent name.
C8_PendingAllResolved ==
    (mib_status = "done" /\ \A m \in mib_deferred : DeclaredLater(m))
        => /\ pending_modules = EmptyDict
           /\ \A m \in mib_deferred :
                /\ m.name \in DOMAIN mib_tree
                /\ mib_tree[m.name].parent.exists
                /\ mib_tree[m.name].parent.name = m.parent
                /\ mib_tree[m.name].oid
                       = Append(mib_tree[m.name].parent.oid, m.num)

\* The oid of every named node.
OidOf(tree) == [n \in DOMAIN tree |-> tree[n].oid]

\* The orders a file system can list the documents of a listing in.
ListingOrders(listing) ==
    { [i \in 1..Len(listing) |-> listing[q[i]]] :
          q \in Permutations(1..Len(listing)) }

\* C9: a construction over the same documents, in whatever order the file
\* system lists them, ends as this one did, with the same node names and
\* the same oid for every name.
C9_BuildDeterministic ==
    mib_status # "building"
        => \A l \in ListingOrders(mib_listing) :
               LET other == MibTreeHolder(l)
               IN  /\ other.status = mib_status
                   /\ mib_status = "done" => OidOf(other.tree) = OidOf(mib_tree)

\* A finished construction over documents listed against path order whose
\* declarations, taken in the listed order, would not give this tree.
C9_Witness ==
    /\ mib_status = "done"
    /\ mib_listing # mib_files
    /\ LET listed == RunDecls(MibState(_add_default_elements, EmptyDict,
                                       "building", {}),
                              DeclsOf(mib_listing), 1)
       IN  listed.status # "done" \/ OidOf(listed.tree) # OidOf(mib_tree)

\* The oid is the parent's oid with one more component.
ExtendsParent(e) ==
    /\ Len(e.oid) = Len(e.parent.oid) + 1
    /\ SubSeq(e.oid, 1, Len(e.parent.oid)) = e.parent.oid

\* C10 (as claimed): every node that has a parent, seed nodes included,
\* has its parent's oid with one more numeric component.
C10_OidExtendsParent ==
    \A n \in DOMAIN mib_tree :
        mib_tree[n].parent.exists => ExtendsParent(mib_tree[n])

\* C10 (amended): every node that has a parent, except the seed node
\* sysDescr (1.3.6.1.2.1.1.1 under system, 1.3.6.1.2), has its parent's
\* oid with one more numeric component.
C10_OidExtendsParentButSysDescr ==
    \A n \in DOMAIN mib_tree :
        (mib_tree[n].parent.exists /\ mib_tree[n] # _add_default_elements["sysDescr"])
            => ExtendsParent(mib_tree[n])

\* A finished tree holding the seed nodes and a leaf under a branch that
\* the documents declared.
C10_Witness ==
    /\ mib_status = "done"
    /\ "sysDescr" \in DOMAIN mib_tree
    /\ \E n \in DOMAIN mib_tree :
          /\ mib_tree[n].type = LEAF
          /\ mib_tree[n].parent.name \notin DOMAIN _add_default_elements

\* The construction stopped by an exception.
MibAborted(status) == status \in {"KeyError", "AssertionError"}

\* C17: a step of the construction that meets an OBJECT-TYPE or an OBJECT
\* IDENTIFIER declaration whose parent is not in the tree ends the
\* construction with an exception and adds no node; one that meets a
\* MODULE-IDENTITY declaration whose parent is not in the tree raises
\* nothing, adds no node and puts the module in pending_modules under the
\* name of its parent.
C17_UnknownParentAborts ==
    [][ (mib_status = "building" /\ mib_pos <= Len(DeclsOf(mib_files))) =>
          LET step(d, kind, resolved) ==
                  /\ (kind = OBJECT_TYPE /\ d.parent \notin DOMAIN mib_tree)
                        => /\ MibAborted(mib_status')
                           /\ mib_tree' = mib_tree
                           /\ pending_modules' = pending_modules
                  /\ (kind = OBJECT_IDENTIFIER /\ ~resolved)
                        => /\ MibAborted(mib_status')
                           /\ mib_tree' = mib_tree
                           /\ pending_modules' = pending_modules
                  /\ (kind = MODULE_IDENTITY /\ ~resolved)
                        => /\ mib_status' = "building"
                           /\ mib_tree' = mib_tree
                           /\ _get_name_replacement(d.parent)
                                  \in DOMAIN pending_modules'
                           /\ pending_modules'[_get_name_replacement(d.parent)]
                                  = << _get_name_replacement(d.name), d.num >>
          IN  step(NextDecl, NextDecl.kind,
                   _get_parent(mib_tree, NextDecl.parent).exists) ]_vars

\* The construction was stopped by an OBJECT IDENTIFIER declaration whose
\* parent the tree does not hold, after a module had been put on hold; the
\* tree has no node of the declared name.
C17_Witness ==
    /\ mib_status = "AssertionError"
    /\ mib_pos > 2
    /\ pending_modules # EmptyDict
    /\ LET stopped(d) ==
              /\ d.kind = OBJECT_IDENTIFIER
              /\ ~_get_parent(mib_tree, d.parent).exists
              /\ _get_name_replacement(d.name) \notin DOMAIN mib_tree
       IN  stopped(DeclsOf(mib_files)[mib_pos - 1])

(***************************************************************************)
(* Claims about the SNMP poll engine (SpecSnmp).                           *)
(***************************************************************************)
\* The number of set_write calls the last call made on a topic.
WritesOfLastCall(topic) == Len(topics[topic]) - snmp_last.writes_before[topic]

ReadReturned == snmp_last.op = "read_data" /\ snmp_last.outcome = "ok"

\* One setup_reading, then one read_data that returned normally.
FirstCycleReturned ==
    snmp_calls = << "setup_reading", "read_data" >> /\ ReadReturned

\* C1: for each of the four device types, a read_data that returns
\* normally makes exactly one set_write call on tel_<device_type>, and
\* setup_reading makes none; so after one setup_reading and one read_data
\* that returns normally the topic has received exactly one call.
C1_OnePrimaryPublish ==
    /\ snmp_last.op = "setup_reading" => WritesOfLastCall(TopicOf(device_type)) = 0
    /\ ReadReturned => WritesOfLastCall(TopicOf(device_type)) = 1
    /\ FirstCycleReturned => Len(topics[TopicOf(device_type)]) = 1

\* A device that is not a Raritan one has gone through setup_reading,
\* which stored its system description, and a first read_data, which
\* returned normally.
C1_Witness ==
    /\ FirstCycleReturned
    /\ device_type = "xups"
    /\ system_description = SIMULATED_SYS_DESCR
    /\ Len(topics["tel_xups"]) = 1

\* C2: after one setup_reading and one read_data that returns normally,
\* a raritan device has made exactly one set_write call on tel_temperature
\* and exactly two on tel_relativeHumidity, one for each humidity slot;
\* for the other device types these two topics never receive a call.
C2_AuxiliaryPublishes ==
    /\ (FirstCycleReturned /\ device_type = "raritan")
          => /\ Len(topics["tel_temperature"]) = 1
             /\ Len(topics["tel_relativeHumidity"]) = 2
    /\ device_type \in Range(DeviceName) \ {"raritan"}
          => /\ topics["tel_temperature"] = << >>
             /\ topics["tel_relativeHumidity"] = << >>

\* A Raritan device whose decimal digits were read by setup_reading and
\* whose first read_data returned normally, with both humidity slots
\* filled from the device.
C2_Witness ==
    /\ FirstCycleReturned
    /\ device_type = "raritan"
    /\ DOMAIN raritan_decimal_digits # {}
    /\ Len(topics["tel_relativeHumidity"]) = 2
    /\ \A i \in 1..2 :
          topics["tel_relativeHumidity"][i].relativeHumidityItem.t = "float"

\* The set_write calls of the last call on the topics other than the
\* primary one.
AuxiliaryWritesOfLastCall ==
    WritesOfLastCall("tel_temperature") + WritesOfLastCall("tel_relativeHumidity")

\* C3 (as claimed): for a raritan device a read_data that returns normally
\* makes, besides the one call on tel_raritan, exactly two more set_write
\* calls in total.
C3_TwoAuxiliaryPublishes ==
    (ReadReturned /\ device_type = "raritan") => AuxiliaryWritesOfLastCall = 2

\* C3 (amended): for a raritan device a read_data that returns normally
\* makes, besides the one call on tel_raritan, exactly three more
\* set_write calls in total, on two auxiliary topics: one on
\* tel_temperature and two on tel_relativeHumidity.
C3_ThreeAuxiliaryPublishes ==
    (ReadReturned /\ device_type = "raritan")
        => /\ WritesOfLastCall("tel_raritan") = 1
           /\ AuxiliaryWritesOfLastCall = 3
           /\ {t \in DOMAIN topics \ {"tel_raritan"} : WritesOfLastCall(t) > 0}
                 = {"tel_temperature", "tel_relativeHumidity"}

\* A Raritan device has been set up and read once, normally, and its
\* temperature record holds the two temperatures read.
C3_Witness ==
    /\ FirstCycleReturned
    /\ device_type = "raritan"
    /\ Len(topics["tel_raritan"]) = 1
    /\ Len(topics["tel_temperature"]) = 1
    /\ \A i \in 1..2 :
          topics["tel_temperature"][1].temperatureItem.items[i].t = "float"

\* The record the last call wrote on a topic.
LastRecord(topic) == topics[topic][Len(topics[topic])]

\* The items read as one value: device, topic field, tree node and kind.
ScalarItem(dt, field, node, kind) ==
    [dt |-> dt, field |-> field, node |-> node, kind |-> kind]
ScalarItems ==
    { ScalarItem("netbooter", "powerOutletStatus", "outletStatus", "int"),
      ScalarItem("xups", "inputFrequency", "xupsInputFrequency", "float"),
      ScalarItem("schneiderPm5xxx", "resetDateTime", "aeResetDateTime", "string") }

\* The identifier an item is read at: <oid>.0 when the result holds it,
\* <oid>.1 otherwise.
ResolvedOid(node) ==
    IF Has(snmp_result, Append(SnmpMibTree[node].oid, 0))
    THEN Append(SnmpMibTree[node].oid, 0)
    ELSE Append(SnmpMibTree[node].oid, 1)

\* v is the float with the value n / k.
IsQuotient(v, n, k) == v.t = "float" /\ v.num * k = n * v.den

\* C11: when the identifier an item is read at is not in the result of the
\* poll, the item's value is 0 for kind int, NaN for kind float and the
\* empty string for kind string, and the cycle raises nothing; when it is
\* in the result the value is the raw value decoded (the integer of its
\* digits, the float of its digits, the string itself).
C11_MissingIdentifierDefaults ==
    /\ (snmp_last.op = "read_data" /\ snmp_last.anomaly = "no_values")
           => snmp_last.outcome = "ok"
    /\ ReadReturned =>
         \A it \in ScalarItems : it.dt = device_type =>
            LET v == LastRecord(TopicOf(device_type))[it.field]
                oid == ResolvedOid(it.node)
                raw == Lookup(snmp_result, oid)
                k == IF oid \in FREQUENCY_OID_LIST THEN 10 ELSE 1
            IN  IF ~Has(snmp_result, oid)
                THEN CASE it.kind = "int" -> v = SInt(0)
                       [] it.kind = "float" -> v = SNaN
                       [] it.kind = "string" -> v = SStr(<< >>)
                ELSE CASE it.kind = "int" -> v = SInt(DigitsValue(raw))
                       [] it.kind = "float" ->
                              AllDigits(raw) => IsQuotient(v, DigitsValue(raw), k)
                       [] it.kind = "string" -> v = SStr(raw)

\* A device that returns no value for its branch: the float item is
\* published as NaN.
C11_Witness ==
    /\ ReadReturned
    /\ snmp_last.anomaly = "no_values"
    /\ device_type = "xups"
    /\ snmp_result = << >>
    /\ LastRecord("tel_xups").inputFrequency = SNaN

\* C13: the value of an item of a device other than Raritan that is read
\* as one value is divided by 10 exactly when the identifier it was read
\* at (<oid>.0, or <oid>.1 when the result does not hold <oid>.0) is in
\* FREQUENCY_OID_LIST: a raw 500 at such an identifier is published as
\* 50.0, and a raw value at any other identifier is published undivided.
C13_FrequencyInTens ==
    ReadReturned =>
        \A it \in ScalarItems :
            (it.dt = device_type /\ Has(snmp_result, ResolvedOid(it.node))
                /\ AllDigits(Lookup(snmp_result, ResolvedOid(it.node))))
            => LET v == LastRecord(TopicOf(device_type))[it.field]
                   oid == ResolvedOid(it.node)
                   n == DigitsValue(Lookup(snmp_result, oid))
               IN  IF oid \in FREQUENCY_OID_LIST
                   THEN /\ v.t = "float"
                        /\ v.num * 10 = n * v.den
                        /\ n = 500 => v.num = 50 * v.den
                   ELSE /\ v.num = n * v.den
                        /\ it.kind = "int" => v = SInt(n)

\* The input frequency of a UPS, sent as 500 and published as 50.0.
C13_Witness ==
    /\ ReadReturned
    /\ device_type = "xups"
    /\ ResolvedOid("xupsInputFrequency") \in FREQUENCY_OID_LIST
    /\ Lookup(snmp_result, ResolvedOid("xupsInputFrequency")) = str(500)
    /\ LastRecord("tel_xups").inputFrequency = SFloat(500, 10)

\* The values a healthy device of this type holds under the roots from
\* the i-th on, in the order of the walk.
RECURSIVE HealthyValues(_, _)
HealthyValues(roots, i) ==
    IF i > Len(roots) THEN << >>
    ELSE LET items == SnmpDevice(device_type, "none")[roots[i]]
         IN  [k \in 1..Len(items) |-> items[k].var_binds[1]]
                 \o HealthyValues(roots, i + 1)

NoWriteInLastCall == \A t \in DOMAIN topics : WritesOfLastCall(t) = 0

NodeOf(field) == SnmpMibTree[TelemetryItemNameOf(field).v]

\* The schema of the device's topic declares more than one value for a field.
MultiValued(dt, field) ==
    \E i \in 1..Len(TopicFields(dt)) :
        TopicFields(dt)[i].name = field /\ TopicFields(dt)[i].count > 1

\* The polled identifiers that start with an oid, in the order polled.
RECURSIVE PolledUnder(_, _, _)
PolledUnder(result, mib_oid, i) ==
    IF i > Len(result) THEN << >>
    ELSE (IF startswith(result[i].oid, mib_oid) THEN << result[i].oid >> ELSE << >>)
             \o PolledUnder(result, mib_oid, i + 1)

\* What a field of the last record is expected to be: a list of the
\* decoded values polled under its node, or the scalar decoded from row 0,
\* from row 1 when row 0 was not polled.
ResolvedAsList(field, node) ==
    LET decoded(ids) ==
            [k \in 1..Len(ids) |->
                get_telemetry_item_value(SnmpClient, field, node.name, ids[k]).v]
    IN  SList(decoded(PolledUnder(snmp_result, node.oid, 1)))
ResolvedAsScalar(field, node) ==
    LET scalar(mib_oid) ==
            LET v == get_telemetry_item_value(SnmpClient, field, node.name,
                                              mib_oid).v
            IN  IF mib_oid \in FREQUENCY_OID_LIST
                THEN IF v.t = "nan" THEN v ELSE SFloat(v.num, v.den * 10)
                ELSE v
    IN  scalar(IF Has(snmp_result, Append(node.oid, 0))
               THEN Append(node.oid, 0) ELSE Append(node.oid, 1))

\* C21 (as claimed): a field is resolved as a list exactly when the
\* field's own node has an index and the schema declares it multi-valued.
C21_ListWhenOwnNodeIndexed ==
    (ReadReturned /\ device_type # "raritan") =>
        \A field \in Range(TelemetryItems(TopicFields(device_type))) :
            LastRecord(TopicOf(device_type))[field].t = "list"
                <=> /\ NodeOf(field).index # NoIndex
                    /\ MultiValued(device_type, field)

\* C21 (amended): a field is resolved as a list exactly when the parent of
\* the field's node has an index and the schema declares the field
\* multi-valued; the list holds, in the order polled, the decoded value of
\* every polled identifier that starts with the node's oid.  Every other
\* field is the scalar decoded from <oid>.0, from <oid>.1 only when <oid>.0
\* was not polled.
C21_ListWhenParentIndexed ==
    (ReadReturned /\ device_type # "raritan") =>
        \A field \in Range(TelemetryItems(TopicFields(device_type))) :
            LET resolved(value, node, multiple) ==
                    /\ value.t = "list" <=> multiple
                    /\ multiple => value = ResolvedAsList(field, node)
                    /\ ~multiple => value = ResolvedAsScalar(field, node)
            IN  resolved(LastRecord(TopicOf(device_type))[field], NodeOf(field),
                         /\ NodeOf(field).parent.index # NoIndex
                         /\ MultiValued(device_type, field))

\* An xups read in which the frequency was polled in row 0 and in row 1:
\* the frequency is the scalar of row 0 and the voltage the list of the
\* three rows polled.
C21_Witness ==
    /\ ReadReturned
    /\ device_type = "xups"
    /\ snmp_last.anomaly = "both_rows"
    /\ Has(snmp_result, Append(NodeOf("inputFrequency").oid, 1))
    /\ IsQuotient(LastRecord("tel_xups")["inputFrequency"], 50, 1)
    /\ LastRecord("tel_xups")["inputVoltage"].t = "list"
    /\ Len(LastRecord("tel_xups")["inputVoltage"].items) = 3

\* An identifier is an oid followed by further components.
ExtendsByComponents(oid, node_oid) ==
    IsPrefix(node_oid, oid) /\ Len(oid) > Len(node_oid)

\* C29: in the record of a read that returned, every field resolved as a
\* list holds as many values as identifiers were polled that are the oid
\* of the field's node followed by further components, and every polled
\* entry taken for a Raritan telemetry branch is the oid of that branch
\* followed by further components.
C29_AttributedByComponents ==
    ReadReturned =>
        /\ device_type \in DOMAIN SnmpMibTree \ {"raritan"} =>
              \A field \in Range(TelemetryItems(TopicFields(device_type))) :
                  LET own(value, node_oid) ==
                          value.t = "list" =>
                              Len(value.items)
                                  = Cardinality({i \in 1..Len(snmp_result) :
                                        ExtendsByComponents(snmp_result[i].oid,
                                                            node_oid)})
                  IN  own(LastRecord(TopicOf(device_type))[field], NodeOf(field).oid)
        /\ device_type = "raritan" =>
              \A k \in 1..Len(RaritanTelemetryOids) :
                  \A i \in 1..Len(snmp_result) :
                      startswith(snmp_result[i].oid, RaritanTelemetryOids[k])
                          => ExtendsByComponents(snmp_result[i].oid,
                                                 RaritanTelemetryOids[k])

\* The entries of the last poll that belong to a Raritan branch.
PolledIn(branch) ==
    {i \in 1..Len(snmp_result) : startswith(snmp_result[i].oid, branch)}
\* The row of an outlet entry and the key of its item in the record.
OutletRow(oid) == oid[Len(oid) - 1]
OutletKey(oid) == RaritanItemById(LastOf(oid)).v.outlet

\* C24: in the record of a Raritan read that returned, the value polled
\* for outlet row r of an item is at position r of the item's array and at
\* no other position, whichever rows the device returned.
C24_OutletValueAtItsRow ==
    (ReadReturned /\ device_type = "raritan") =>
        \A i \in PolledIn(RaritanOid.OutletTelemetry) :
            LET placed(items, r, raw) ==
                    /\ r <= Len(items)
                    /\ items[r].num = raw
                    /\ \A k \in 1..Len(items) : k # r => items[k].num # raw
            IN  placed(LastRecord("tel_raritan")[OutletKey(snmp_result[i].oid)].items,
                       OutletRow(snmp_result[i].oid),
                       int(snmp_result[i].val).v)

\* What follows the branch in an identifier: pdu, row and item.
Suffix(oid, branch) == SubSeq(oid, Len(branch) + 1, Len(oid))

\* The digit count the unit reports under a decimal-digits branch for the
\* row and item of a suffix.
ReportedDigits(branch, suffix) ==
    LET reported == HealthyValues(<< branch >>, 1)
        at == CHOOSE k \in 1..Len(reported) : reported[k].oid = branch \o suffix
    IN  int(reported[at].val).v

\* The position of a polled outlet entry among the polled entries of its
\* item: the position its value is appended at.
OutletRank(i) ==
    Cardinality({j \in PolledIn(RaritanOid.OutletTelemetry) :
                    j <= i /\ LastOf(snmp_result[j].oid) = LastOf(snmp_result[i].oid)})

\* C30: in the record of a Raritan read that returned, the value of every
\* polled outlet row is the raw value divided by 10^d, d being the digit
\* count the unit reports for that row and item, and the value of every
\* polled inlet item is the raw value divided by 10^d, d being the digit
\* count the unit reports for that inlet item.
C30_ScaledByOwnDigits ==
    (ReadReturned /\ device_type = "raritan") =>
        /\ \A i \in PolledIn(RaritanOid.OutletTelemetry) :
              LET scaled(e, items) ==
                      items[OutletRank(i)]
                          = Scaled(int(e.val).v,
                                   ReportedDigits(RaritanOid.OutletDecimalDigits,
                                       Suffix(e.oid, RaritanOid.OutletTelemetry)))
              IN  scaled(snmp_result[i],
                         LastRecord("tel_raritan")[OutletKey(snmp_result[i].oid)].items)
        /\ \A i \in PolledIn(RaritanOid.InletTelemetry) :
              LET scaled(e) ==
                      LastRecord("tel_raritan")[RaritanItemById(LastOf(e.oid)).v.inlet]
                          = Scaled(int(e.val).v,
                                   ReportedDigits(RaritanOid.InletDecimalDigits,
                                       Suffix(e.oid, RaritanOid.InletTelemetry)))
              IN  scaled(snmp_result[i])

\* The client as its constructor leaves it, and the table of decimal
\* digits one setup_reading of it gives against a unit.
NewSnmpClient ==
    [device_type |-> device_type, snmp_result |-> << >>,
     system_description |-> NoSystemDescription,
     raritan_decimal_digits |-> EmptyDict, object_types |-> << SystemOid >>]
SingleSetup(anomaly) ==
    setup_reading(NewSnmpClient, SnmpDevice(device_type, anomaly))

\* C27: when the table of a Raritan client is the one a single setup
\* against a unit gives (read cycles may have followed the setup), a
\* further setup_reading against the same unit leaves the table as it is,
\* each list with one entry per row the unit reports; and no read_data
\* changes the table.
C27_ResetupKeepsTable ==
    (device_type = "raritan" /\ Count("setup_reading") = 1)
        => \A anomaly \in SnmpAnomalies("raritan") :
              LET again(once, twice, read) ==
                      /\ (once.raised = "-"
                             /\ once.c.raritan_decimal_digits = raritan_decimal_digits
                             /\ twice.raised = "-")
                            => twice.c.raritan_decimal_digits = raritan_decimal_digits
                      /\ read.c.raritan_decimal_digits = raritan_decimal_digits
              IN  again(SingleSetup(anomaly),
                        setup_reading(SnmpClient, SnmpDevice("raritan", anomaly)),
                        read_data(SnmpClient, SnmpDevice("raritan", anomaly)))

\* The entries of the last poll that are readings of external sensors of a
\* kind ("temperature" or "humidity"), and the k-th of them as met.
SensorReadings(kind) ==
    {i \in PolledIn(RaritanOid.ExternalSensorTelemetry) :
        /\ LastOf(snmp_result[i].oid) \in 1..Len(RARITAN_EXT_SENS_DEC_DIGITS_IDS)
        /\ RARITAN_EXT_SENS_DEC_DIGITS_IDS[LastOf(snmp_result[i].oid)] = kind}
NthReading(kind, k) ==
    CHOOSE i \in SensorReadings(kind) :
        Cardinality({j \in SensorReadings(kind) : j <= i}) = k
\* What slot k of a kind is to hold: the k-th reading divided by 10^d, d the
\* digit count the unit reports for that sensor, or NaN without a k-th.
ReadingSlot(kind, k) ==
    IF k > Cardinality(SensorReadings(kind)) THEN SNaN
    ELSE LET scaled(e) ==
                 Scaled(int(e.val).v,
                        ReportedDigits(RaritanOid.ExternalSensorDecimalDigits,
                            Suffix(e.oid, RaritanOid.ExternalSensorTelemetry)))
         IN  scaled(snmp_result[NthReading(kind, k)])
\* The records the last call wrote to a topic.
RecordsOfLastCall(topic) ==
    {topics[topic][k] : k \in (snmp_last.writes_before[topic] + 1)..Len(topics[topic])}

\* C25: a Raritan read that returned with at most two temperature and at
\* most two humidity readings wrote one tel_temperature record whose
\* temperatureItem has the length of the schema, holds in its first two
\* slots the scaled first and second temperature reading as met (NaN
\* without one) and NaN in all other slots, and two tel_relativeHumidity
\* records, the k-th with the scaled k-th humidity reading or NaN; and
\* after a Raritan read that met a third reading of a kind, no record the
\* read wrote holds that reading in any slot.
C25_TwoSlotsEachKind ==
    /\ (ReadReturned /\ device_type = "raritan"
            /\ Cardinality(SensorReadings("temperature")) <= 2
            /\ Cardinality(SensorReadings("humidity")) <= 2)
          => /\ WritesOfLastCall("tel_temperature") = 1
             /\ LET layout(items) ==
                        /\ Len(items) = TemperatureSchema.temperatureItem
                        /\ \A k \in 1..Len(items) :
                              items[k] = IF k <= 2 THEN ReadingSlot("temperature", k)
                                         ELSE SNaN
                IN  layout(LastRecord("tel_temperature").temperatureItem.items)
             /\ WritesOfLastCall("tel_relativeHumidity") = 2
             /\ \A k \in 1..2 :
                   topics["tel_relativeHumidity"]
                         [snmp_last.writes_before["tel_relativeHumidity"] + k]
                       .relativeHumidityItem = ReadingSlot("humidity", k)
    /\ (snmp_last.op = "read_data" /\ device_type = "raritan")
          => \A kind \in {"temperature", "humidity"} :
                \A i \in SensorReadings(kind) :
                    Cardinality({j \in SensorReadings(kind) : j <= i}) > 2
                        => LET absent(raw) ==
                                   /\ \A r \in RecordsOfLastCall("tel_temperature") :
                                         \A k \in 1..Len(r.temperatureItem.items) :
                                             r.temperatureItem.items[k].num # raw
                                   /\ \A r \in RecordsOfLastCall("tel_relativeHumidity") :
                                         r.relativeHumidityItem.num # raw
                           IN  absent(int(snmp_result[i].val).v)

\* A read that returned with one humidity reading and no temperature.
C25_Witness ==
    /\ ReadReturned /\ device_type = "raritan"
    /\ snmp_last.anomaly = "one_sensor"
    /\ Cardinality(SensorReadings("humidity")) = 1
    /\ SensorReadings("temperature") = {}
    /\ LastRecord("tel_temperature").temperatureItem.items[1] = SNaN
    /\ LastRecord("tel_relativeHumidity").relativeHumidityItem = SNaN
    /\ topics["tel_relativeHumidity"][Len(topics["tel_relativeHumidity"]) - 1]
           .relativeHumidityItem = Scaled(45, 0)

\* A read that met a third temperature reading.
C25_ThirdReadingMet ==
    /\ snmp_last.op = "read_data" /\ device_type = "raritan"
    /\ Cardinality(SensorReadings("temperature")) = 3

C22_SetupWalksSystem ==
    (snmp_last.op = "setup_reading" /\ snmp_last.outcome = "ok")
        => /\ system_description
                 = IF snmp_last.anomaly = "no_sys_descr"
                   THEN NoSystemDescription ELSE SIMULATED_SYS_DESCR
           /\ device_type # "raritan" => object_types = << SystemOid >>

\* The array length the schema of a topic declares for a field: the
\* count of the field in the topic's DataType (0: no such field modelled).
SchemaCount(dt, topic, field) ==
    LET fields == TopicFields(dt)
        declared == {i \in 1..Len(fields) : fields[i].name = field}
    IN  IF topic = "tel_temperature" /\ field = "temperatureItem"
        THEN TemperatureSchema.temperatureItem
        ELSE IF topic = TopicOf(dt) /\ declared # {}
        THEN fields[CHOOSE i \in declared : TRUE].count
        ELSE 0

\* C16: in every record written to a topic, each list-valued field that
\* the topic's schema declares has the array length the schema declares,
\* whatever number of rows the device returned.
C16_ListsHaveSchemaLength ==
    \A topic \in DOMAIN topics : \A i \in 1..Len(topics[topic]) :
        \A field \in DOMAIN topics[topic][i] :
            LET sized(value, count) ==
                    (value.t = "list" /\ count > 0) => Len(value.items) = count
            IN  sized(topics[topic][i][field],
                      SchemaCount(device_type, topic, field))

-----------------------------------------------------------------------------
(* Claims about both poll engines (SpecPoll).                              *)

\* The fields of the record a device other than Raritan is read into.
RecordFields(dt) ==
    {"systemDescription", "sensorName"} \cup Range(TelemetryItems(TopicFields(dt)))

AllReads == Len(DiscreteInputsAgc150) + Len(InputRegistersAgc150)

\* The inputs of both tables with the kind of read each is read by.
AgcInputs ==
    {[kind |-> "discrete", input |-> i] : i \in Range(DiscreteInputsAgc150)}
        \cup {[kind |-> "register", input |-> i] : i \in Range(InputRegistersAgc150)}

\* The array groups and the 0-based position of a member in its group.
IsMember(input_name) ==
    \E g \in DOMAIN ARRAY_FIELDS_AGC150 : input_name \in Range(ARRAY_FIELDS_AGC150[g])
GroupOf(input_name) ==
    CHOOSE g \in DOMAIN ARRAY_FIELDS_AGC150 : input_name \in Range(ARRAY_FIELDS_AGC150[g])
PositionIn(group, input_name) ==
    CHOOSE k \in 0..(Len(ARRAY_FIELDS_AGC150[group]) - 1) :
        ARRAY_FIELDS_AGC150[group][k + 1] = input_name

\* Where the value read for an input is expected, and whether it is there.
StoredAt(fields, input_name, value) ==
    IF IsMember(input_name)
    THEN LET slot(g) ==
                 /\ g \in DOMAIN fields
                 /\ fields[g].isList
                 /\ Len(fields[g].items) = Len(ARRAY_FIELDS_AGC150[g])
                 /\ fields[g].items[PositionIn(g, input_name) + 1]
                        = _process_modbus_value(g, value)
         IN  slot(GroupOf(input_name))
    ELSE /\ input_name \in DOMAIN fields
         /\ fields[input_name] = ScalarField(_process_modbus_value(input_name, value))

\* _save_field changes one slot of one array, or one scalar, and nothing else.
SavesOnlyThere(fields, input_name, value) ==
    LET differs(saved, name) ==
            /\ StoredAt(saved, input_name, value)
            /\ \A f \in DOMAIN fields \ {name} :
                   f \in DOMAIN saved /\ saved[f] = fields[f]
            /\ DOMAIN saved = DOMAIN fields \cup {name}
            /\ IsMember(input_name) =>
                  \A k \in 1..Len(fields[name].items) :
                      k # PositionIn(name, input_name) + 1
                          => saved[name].items[k] = fields[name].items[k]
    IN  differs(_save_field(fields, input_name, value),
                IF IsMember(input_name) THEN GroupOf(input_name) ELSE input_name)

\* C19: after a process_telemetry call that returned normally, the value
\* read for each input of some device is found where _save_field puts it:
\* for a member of a group of ARRAY_FIELDS_AGC150 in the slot of the
\* group's array at the member's position in the tuple, the array having
\* the length of the tuple, and for any other input as a scalar under the
\* input's name; the slot of a member whose read returned no data still
\* holds None.  A further _save_field on these fields changes that one
\* slot, or that one scalar, and nothing else.
C19_SavedBySlot ==
    (last_call.op = "process_telemetry" /\ last_call.outcome = "ok")
        => /\ \E dev \in DeviceStates :
                \A x \in AgcInputs :
                    LET read(response, name) ==
                            IF response # << >>
                            THEN StoredAt(agc150_fields, name, response[1])
                            ELSE IsMember(name) =>
                                   agc150_fields[GroupOf(name)]
                                       .items[PositionIn(GroupOf(name), name) + 1]
                                       = NoneVal
                    IN  read(Response(dev, x.kind, x.input), x.input[1])
           /\ \A x \in AgcInputs :
                SavesOnlyThere(agc150_fields, x.input[1],
                               Response(HealthyDevice, x.kind, x.input)[1])

\* A poll in which the read of windingTemperature2 returned no data: the
\* second slot of windingTemperature holds None between two slots that
\* hold different temperatures.
C19_Witness ==
    /\ last_call.op = "process_telemetry"
    /\ last_call.outcome = "ok"
    /\ LET slots(items) ==
              /\ Len(items) = 3
              /\ items[2] = NoneVal
              /\ items[1] # NoneVal /\ items[3] # NoneVal
              /\ items[1] # items[3]
       IN  slots(agc150_fields["windingTemperature"].items)

\* The record holds nothing for an input: no scalar under its field name,
\* None in its slot of the group's array.
HoldsNothingFor(record, input_name) ==
    IF IsMember(input_name)
    THEN record[GroupOf(input_name)]
             .items[PositionIn(GroupOf(input_name), input_name) + 1] = NoneVal
    ELSE _get_xml_field_name(input_name) \notin DOMAIN record

\* C26: whatever cycles came before, the record a process_telemetry call
\* publishes holds, for each input, the value the device answered the read
\* of that input with in this call, and nothing for an input whose read
\* returned no data in this call.
C26_RecordReadInSameCall ==
    (ctor_outcome = "ok" /\ connected(client)) =>
        \A dev \in DeviceStates :
            LET fresh(r) ==
                    (r.raised = "-" /\ Len(r.writes) = Len(topics[AgcTopic]) + 1)
                        => \A x \in AgcInputs :
                              LET read(response, name) ==
                                      IF response # << >>
                                      THEN StoredAt(r.writes[Len(r.writes)], name,
                                                    response[1])
                                      ELSE HoldsNothingFor(r.writes[Len(r.writes)],
                                                           name)
                              IN  read(Response(dev, x.kind, x.input), x.input[1])
            IN  fresh(process_telemetry(CallState, dev))

\* C18: a process_telemetry call that returns normally has read the
\* discrete inputs of DiscreteInputsAgc150 in declaration order, then the
\* input registers of InputRegistersAgc150 in declaration order, each
\* once, then has written agc150_fields to tel_agcGenset150 once, and then
\* has slept TELEMETRY_WAIT; nothing else was awaited, so that no write
\* precedes the last read.  The record holds the field of every input
\* whose read was answered with data.
C18_ReadsThenOnePublish ==
    (last_call.op = "process_telemetry" /\ last_call.outcome = "ok")
        => /\ client_reads
                 = [i \in 1..Len(DiscreteInputsAgc150) |->
                        << "discrete", DiscreteInputsAgc150[i][2] >>]
                   \o [i \in 1..Len(InputRegistersAgc150) |->
                        << "register", InputRegistersAgc150[i][2] >>]
                   \o << << "set_write", 0 >>, << "sleep", TELEMETRY_WAIT >> >>
           /\ Len(topics[AgcTopic]) = last_call.writes_before + 1
           /\ LastRecord(AgcTopic) = agc150_fields
           /\ \A input \in Range(DiscreteInputsAgc150)
                            \cup Range(InputRegistersAgc150) :
                 input[1] \notin NoDataInputs
                     => _get_xml_field_name(input[1])
                            \in DOMAIN LastRecord(AgcTopic)

\* A second poll that returned normally after a first one that had.
C18_Witness ==
    /\ last_call.op = "process_telemetry"
    /\ last_call.outcome = "ok"
    /\ last_call.writes_before = 1
    /\ Len(topics[AgcTopic]) = 2
    /\ Len(client_reads) = AllReads + 2

\* C15: no record is published in part.  A cycle of either engine that
\* ends with an exception, raised before the first read or walk or after
\* some of them, writes nothing on the primary topic; a cycle that writes
\* has made every read or walk and decoded every field before: the Modbus
\* record is written after all reads and is the full field set, the SNMP
\* record holds every item of the topic.
C15_NoPartialPublish ==
    /\ (snmp_last.op = "read_data" /\ snmp_last.outcome # "ok")
          => WritesOfLastCall(TopicOf(device_type)) = 0
    /\ (ReadReturned /\ device_type # "raritan")
          => DOMAIN LastRecord(TopicOf(device_type)) = RecordFields(device_type)
    /\ (last_call.op = "process_telemetry" /\ last_call.outcome # "ok")
          => Len(topics[AgcTopic]) = last_call.writes_before
    /\ (last_call.op = "process_telemetry" /\ last_call.outcome = "ok")
          => /\ Len(topics[AgcTopic]) = last_call.writes_before + 1
             /\ SubSeq(client_reads, AllReads + 1, Len(client_reads))
                    = << << "set_write", 0 >>, << "sleep", TELEMETRY_WAIT >> >>
             /\ LastRecord(AgcTopic) = agc150_fields
             /\ \A f \in DOMAIN agc150_fields :
                    agc150_fields[f].isList =>
                        Len(agc150_fields[f].items) = Len(ARRAY_FIELDS_AGC150[f])

\* The connection drops when the discrete inputs have been read: the cycle
\* raises after those reads and nothing is written.
C15_Witness ==
    /\ last_call.op = "process_telemetry"
    /\ WasConnected(last_call)
    /\ last_call.outcome = "RuntimeError"
    /\ Len(client_reads) = Len(DiscreteInputsAgc150)
    /\ Len(topics[AgcTopic]) = last_call.writes_before

-----------------------------------------------------------------------------
(* Claims about _extract_float_from_string (SpecExtract).                  *)

Extracted == fs_outcome.raised # "not called"
Returned == fs_outcome.raised = "-"

\* Two outcomes are the same exception or the same value.
SameOutcome(a, b) == a.raised = b.raised /\ (a.raised = "-" => a.v = b.v)

\* The string is a float as it stands: float(float_string) does not raise.
DirectlyParsable == float(fs_input).raised = "-"

\* A text of the form digits "." digits with digits on both sides, and the
\* number it writes, as a numerator over a power of ten.
IsDecimalText(text) ==
    \E k \in 2..(Len(text) - 1) :
        /\ text[k] = "."
        /\ AllDigits(SubSeq(text, 1, k - 1))
        /\ AllDigits(SubSeq(text, k + 1, Len(text)))
DecimalNum(text) ==
    LET k == CHOOSE k \in 2..(Len(text) - 1) : text[k] = "."
    IN  DigitsValue(SubSeq(text, 1, k - 1)) * Pow10(Len(text) - k)
            + DigitsValue(SubSeq(text, k + 1, Len(text)))
DecimalDen(text) ==
    LET k == CHOOSE k \in 2..(Len(text) - 1) : text[k] = "."
    IN  Pow10(Len(text) - k)

\* A "0x" string with a whole number of bytes of ASCII before its end or
\* before a character that is neither letter nor digit, and the text
\* those bytes are.
WellFormedHex ==
    /\ fs_origin.kind = "hex"
    /\ fs_origin.prefix = << "0", "x" >>
    /\ fs_origin.tail \in {<< >>, << "0", "0" >>, << ".", "5" >>}
EncodedText ==
    IF fs_origin.tail = << "0", "0" >> THEN Append(fs_origin.payload, "NUL")
    ELSE fs_origin.payload

\* The text a literal is looked for in.
TextSearched == IF WellFormedHex THEN EncodedText ELSE fs_input
HasLiteral(text) == \E i \in 1..Len(text) : LiteralAt(text, i).len > 0

RECURSIVE CountLiterals(_, _)
CountLiterals(text, i) ==
    IF i > Len(text) THEN 0
    ELSE IF LiteralAt(text, i).len > 0
    THEN 1 + CountLiterals(text, i + LiteralAt(text, i).len)
    ELSE CountLiterals(text, i + 1)

IsValueError(e) == e \in {"ValueError", "ValueError(fromhex)", "UnicodeDecodeError"}

\* C20 (as claimed): ValueError is raised whenever the string does not
\* hold exactly one float value, when it holds none and when it holds more
\* than one; a float is returned only for a string that holds exactly one.
C20_ExactlyOneFloat ==
    (Extracted /\ fs_origin.kind # "hex")
        => IF CountLiterals(fs_input, 1) = 1 THEN Returned
           ELSE IsValueError(fs_outcome.raised)

====
